---- MODULE Spec2Model ----
(***************************************************************************)
(* Diecut lifecycle and wear tracking of the tooling backend: the serial   *)
(* number ledger (KPDBA.DIECUT_SN), the modification log                   *)
(* (KPDBA.DIECUT_MODIFY), the production log (KPDBA.WIP_DIECUT) and the    *)
(* request handlers that read and write them.  Every awaited store call    *)
(* of a handler is one step, so that concurrent requests interleave        *)
(* between statements exactly where the code awaits.                       *)
(*                                                                         *)
(* Strings that the code takes apart (serial numbers, diecut ids, the      *)
(* maximum suffix) are sequences of one-character strings; the empty       *)
(* sequence is Oracle's NULL string.  Other nullable columns use "NULL".   *)
(***************************************************************************)
EXTENDS Integers, Sequences, FiniteSets, TLC

VARIABLES
  diecut,   \* KPDBA.DIECUT: diecut id -> catalog row
  ledger,   \* KPDBA.DIECUT_SN: serial number -> ledger row
  modify,   \* KPDBA.DIECUT_MODIFY: sequence of modification rows
  wip,      \* KPDBA.WIP_DIECUT: sequence of production log rows
  resetHist,\* KPDBA.DIECUT_RESET_HIST: set of reset rows
  schema,   \* column defaults of the store, fixed at start
  pc,       \* handler -> position in its code
  req,      \* handler -> the request it serves
  loc,      \* handler -> its local variables
  resp,     \* handler -> the response it sent
  started   \* number of requests accepted so far

vars == <<diecut, ledger, modify, wip, resetHist, schema, pc, req, loc, resp, started>>
store == <<diecut, ledger, modify, wip, resetHist, schema>>

(***************************************************************************)
(* Bounds of the model.                                                    *)
(***************************************************************************)
NumProcs == 2
MaxRequests == 3

Procs == 1..NumProcs

NULL == "NULL"
NoStr == <<>>

(***************************************************************************)
(* Character strings.                                                      *)
(***************************************************************************)
Digits == <<"0", "1", "2", "3", "4", "5", "6", "7", "8", "9">>

IsDigit(c) == \E i \in 1..Len(Digits) : Digits[i] = c

DigitVal(c) == (CHOOSE i \in 1..Len(Digits) : Digits[i] = c) - 1

AllDigits(s) == s # <<>> /\ \A i \in 1..Len(s) : IsDigit(s[i])

RECURSIVE DigitsToNat(_)
DigitsToNat(s) ==
  IF s = <<>> THEN 0
  ELSE 10 * DigitsToNat(SubSeq(s, 1, Len(s) - 1)) + DigitVal(s[Len(s)])

RECURSIVE NatToDigits(_)
NatToDigits(n) ==
  IF n < 10 THEN <<Digits[n + 1]>>
  ELSE NatToDigits(n \div 10) \o <<Digits[(n % 10) + 1]>>

\* Number.prototype.toString / String(n) of an integer
NumToString(n) == IF n < 0 THEN <<"-">> \o NatToDigits(0 - n) ELSE NatToDigits(n)

RECURSIVE LeadingDigits(_)
LeadingDigits(s) ==
  IF s = <<>> \/ ~IsDigit(s[1]) THEN <<>>
  ELSE <<s[1]>> \o LeadingDigits(Tail(s))

\* parseInt(s, 10): an optional sign, then the longest run of digits; NaN without one
ParseInt(s) ==
  LET neg  == s # <<>> /\ s[1] = "-"
      body == IF s # <<>> /\ s[1] \in {"-", "+"} THEN Tail(s) ELSE s
      run  == LeadingDigits(body)
  IN  IF run = <<>> THEN [nan |-> TRUE, val |-> 0]
      ELSE [nan |-> FALSE, val |-> IF neg THEN 0 - DigitsToNat(run) ELSE DigitsToNat(run)]

RECURSIVE Repeat(_, _)
Repeat(c, n) == IF n <= 0 THEN <<>> ELSE <<c>> \o Repeat(c, n - 1)

\* String.prototype.padStart(width, c)
PadStart(s, width, c) == Repeat(c, width - Len(s)) \o s

\* Oracle SUBSTR(s, pos): the rest of s from position pos, NULL past the end
Substr(s, pos) == IF pos > Len(s) THEN <<>> ELSE SubSeq(s, pos, Len(s))

\* Oracle TO_NUMBER accepts an optionally signed run of digits (ORA-01722 otherwise)
ToNumberOk(s) == AllDigits(s) \/ (Len(s) > 1 /\ s[1] = "-" /\ AllDigits(Tail(s)))

ToNumber(s) == IF s[1] = "-" THEN 0 - DigitsToNat(Tail(s)) ELSE DigitsToNat(s)

SetMax(S) == CHOOSE x \in S : \A y \in S : y <= x

\* Binary string order of Oracle's ORDER BY on a VARCHAR2 column
CharCode(c) ==
  IF c = "-" THEN 45
  ELSE IF IsDigit(c) THEN 48 + DigitVal(c)
  ELSE IF c = "A" THEN 65
  ELSE IF c = "B" THEN 66
  ELSE IF c = "N" THEN 78
  ELSE IF c = "X" THEN 88
  ELSE 97

RECURSIVE StrLeq(_, _)
StrLeq(a, b) ==
  IF a = <<>> THEN TRUE
  ELSE IF b = <<>> THEN FALSE
  ELSE IF a[1] # b[1] THEN CharCode(a[1]) < CharCode(b[1])
  ELSE StrLeq(Tail(a), Tail(b))

(***************************************************************************)
(* Serial number issuance.                                                 *)
(***************************************************************************)
SnOfDiecut(diecutId) == {sn \in DOMAIN ledger : ledger[sn].diecutId = diecutId}

\* DiecutSN.getMaxSerialNumber: MAX(TO_NUMBER(SUBSTR(DIECUT_SN, LENGTH(DIECUT_ID) + 2)))
\* over the rows of the diecut; "0" when the maximum is NULL or 0; the query
\* raises ORA-01722 when a suffix is not a number.
getMaxSerialNumber(diecutId) ==
  LET suffixes == {Substr(sn, Len(diecutId) + 2) : sn \in SnOfDiecut(diecutId)} \ {NoStr}
  IN  IF \E s \in suffixes : ~ToNumberOk(s) THEN [ok |-> FALSE, val |-> NoStr]
      ELSE IF suffixes = {} THEN [ok |-> TRUE, val |-> <<"0">>]
      ELSE LET m == SetMax({ToNumber(s) : s \in suffixes})
           IN  [ok |-> TRUE, val |-> IF m = 0 THEN <<"0">> ELSE NumToString(m)]

\* a serial generator that forgets the diecut id prefix
generateDiecutSN_NoPrefix(diecutId, currentMaxSN) ==
  LET n == ParseInt(IF currentMaxSN = NoStr THEN <<"0">> ELSE currentMaxSN)
  IN  <<"-">> \o PadStart(NumToString(n.val + 1), 4, "0")

\* a serial generator that pads to three digits
generateDiecutSN_Pad3(diecutId, currentMaxSN) ==
  LET n == ParseInt(IF currentMaxSN = NoStr THEN <<"0">> ELSE currentMaxSN)
  IN  diecutId \o <<"-">> \o PadStart(NumToString(n.val + 1), 3, "0")

\* helpers.generateDiecutSN
generateDiecutSN(diecutId, currentMaxSN) ==
  LET n    == ParseInt(IF currentMaxSN = NoStr THEN <<"0">> ELSE currentMaxSN)
      text == IF n.nan THEN <<"N", "a", "N">> ELSE NumToString(n.val + 1)
  IN  diecutId \o <<"-">> \o PadStart(text, 4, "0")

(***************************************************************************)
(* Rows and handler bookkeeping.                                           *)
(***************************************************************************)
NullNum == 0 - 1

Nvl(x, d) == IF x = NullNum THEN d ELSE x

A == <<"A">>
B == <<"B">>

\* "{diecutId}-{4-digit sequence}"
SnOf(diecutId, n) == diecutId \o <<"-">> \o PadStart(NatToDigits(n), 4, "0")

\* a row of KPDBA.DIECUT_SN; TL_STATUS is never written by this service: an
\* inserted row carries the column default
SnRow(diecutId, diecutType, diecutAge, status) ==
  [diecutId |-> diecutId, diecutType |-> diecutType, diecutAge |-> diecutAge,
   status |-> status, tlStatus |-> schema.tlStatus, dueDate |-> NULL,
   probDesc |-> NULL, bladeChangeCount |-> NullNum]

\* DIECUT_SN is the primary key of KPDBA.DIECUT_SN: inserting a serial
\* number that is present raises ORA-00001
PkViolation(sn) == sn \in DOMAIN ledger

InsertSn(sn, row) == [s \in DOMAIN ledger \cup {sn} |-> IF s = sn THEN row ELSE ledger[s]]

IdleReq == [op |-> "none"]
NoLoc == [none |-> TRUE]
NoResp == [code |-> 0]

CanStart(p) == pc[p] \in {"idle", "done"} /\ started < MaxRequests

Begin(p, at, r) ==
  /\ CanStart(p)
  /\ pc' = [pc EXCEPT ![p] = at]
  /\ req' = [req EXCEPT ![p] = r]
  /\ loc' = [loc EXCEPT ![p] = NoLoc]
  /\ resp' = [resp EXCEPT ![p] = NoResp]
  /\ started' = started + 1
  /\ UNCHANGED store

\* res.status(code).json(formatResponse(success, message, data))
Respond(p, code, data) ==
  /\ pc' = [pc EXCEPT ![p] = "done"]
  /\ resp' = [resp EXCEPT ![p] = [code |-> code, success |-> (code < 400), data |-> data]]

\* next(new ApiError(message, code)) -> errorHandler: the status code of the
\* error and the body { status, message } ('fail' for 4xx, 'error' otherwise;
\* outside production also error and stack).  The body has no success field
\* and no data.
Fail(p, code) ==
  /\ pc' = [pc EXCEPT ![p] = "done"]
  /\ resp' = [resp EXCEPT ![p] =
       [code |-> code, status |-> (IF code < 500 THEN "fail" ELSE "error"), data |-> NULL]]

Goto(p, at) == pc' = [pc EXCEPT ![p] = at]

(***************************************************************************)
(* POST /:id/serial  (generateSerialNumber)                                *)
(***************************************************************************)
DiecutIds == {A, B}
IssueAges == {5}

generateSerialNumber(p) ==
  \E id \in DiecutIds, age \in IssueAges :
    Begin(p, "gsn_findByPk", [op |-> "generateSerialNumber", id |-> id, diecutAge |-> age])

\* const diecut = await Diecut.findByPk(req.params.id): the catalog row by key
gsn_findByPk(p) ==
  /\ pc[p] = "gsn_findByPk"
  /\ IF req[p].id \in DOMAIN diecut
       THEN /\ Goto(p, "gsn_getMax")
            /\ loc' = [loc EXCEPT ![p] = [diecutId |-> req[p].id,
                                           diecutType |-> diecut[req[p].id].diecutType]]
            /\ UNCHANGED resp
       ELSE Fail(p, 404) /\ UNCHANGED loc
  /\ UNCHANGED <<store, req, started>>

\* const maxSN = await DiecutSN.getMaxSerialNumber(...); const newSN = generateDiecutSN(...)
gsn_getMax(p) ==
  /\ pc[p] = "gsn_getMax"
  /\ LET r == getMaxSerialNumber(loc[p].diecutId)
     IN  IF r.ok
           THEN /\ Goto(p, "gsn_create")
                /\ loc' = [loc EXCEPT ![p] =
                     [diecutId |-> loc[p].diecutId, diecutType |-> loc[p].diecutType,
                      maxSN |-> r.val, newSN |-> generateDiecutSN(loc[p].diecutId, r.val)]]
                /\ UNCHANGED resp
           ELSE Fail(p, 500) /\ UNCHANGED loc
  /\ UNCHANGED <<store, req, started>>

\* DiecutSN.create: the INSERT
gsn_create(p) ==
  /\ pc[p] = "gsn_create"
  /\ IF PkViolation(loc[p].newSN)
       THEN Fail(p, 500) /\ UNCHANGED ledger
       ELSE /\ ledger' = InsertSn(loc[p].newSN,
                 SnRow(loc[p].diecutId, loc[p].diecutType, req[p].diecutAge, "ACTIVE"))
            /\ Goto(p, "gsn_findById")
            /\ UNCHANGED resp
  /\ UNCHANGED <<diecut, modify, wip, resetHist, schema, req, loc, started>>

\* DiecutSN.create: return await this.findById(snData.diecutSn); res.status(201)
gsn_findById(p) ==
  /\ pc[p] = "gsn_findById"
  /\ Respond(p, 201, [diecutSn |-> loc[p].newSN])
  /\ UNCHANGED <<store, req, loc, started>>

\* ledgers the issuance is tried on: the suffixes present for diecut A
SeedSuffixesA == {{}, 1..7, {9}, {3, 99}, {9999}}
SeedSuffixesB == {{}, {2}}
\* a serial number registered with a suffix that is no number
MalformedSn == <<"A", "-", "X">>

SeedLedger(sa, sb, bad) ==
  LET sns == {SnOf(A, n) : n \in sa} \cup {SnOf(B, n) : n \in sb}
               \cup (IF bad THEN {MalformedSn} ELSE {})
  IN  [sn \in sns |->
         [diecutId |-> <<sn[1]>>, diecutType |-> "DC", diecutAge |-> 0,
          status |-> "N", tlStatus |-> "GOOD", dueDate |-> NULL,
          probDesc |-> NULL, bladeChangeCount |-> NullNum]]

CatalogRow(t) == [diecutType |-> t, status |-> "ACTIVE"]

InitHandlers ==
  /\ pc = [p \in Procs |-> "idle"]
  /\ req = [p \in Procs |-> IdleReq]
  /\ loc = [p \in Procs |-> NoLoc]
  /\ resp = [p \in Procs |-> NoResp]
  /\ started = 0

InitIssue ==
  /\ \E withB \in BOOLEAN :
       diecut = [d \in (IF withB THEN {A, B} ELSE {A}) |-> CatalogRow("DC")]
  /\ \E sa \in SeedSuffixesA, sb \in SeedSuffixesB, bad \in BOOLEAN :
       ledger = SeedLedger(sa, sb, bad)
  /\ modify = <<>>
  /\ wip = <<>>
  /\ resetHist = {}
  /\ schema = [tlStatus |-> "GOOD", cancelFlag |-> "F"]
  /\ InitHandlers

NextIssue ==
  \E p \in Procs :
    \/ generateSerialNumber(p)
    \/ gsn_findByPk(p)
    \/ gsn_getMax(p)
    \/ gsn_create(p)
    \/ gsn_findById(p)

SpecIssue == InitIssue /\ [][NextIssue]_vars

(***************************************************************************)
(* Claims about serial number issuance.                                    *)
(***************************************************************************)
HoldsSerial(p) ==
  /\ req[p].op = "generateSerialNumber"
  /\ pc[p] \in {"gsn_create", "gsn_findById", "done"}
  /\ "newSN" \in DOMAIN loc[p]

\* the largest numeric suffix among the serial numbers of a diecut, 0 without one
MaxSuffixOf(diecutId) ==
  LET nums == {ToNumber(x) : x \in
                 {Substr(sn, Len(diecutId) + 2) : sn \in SnOfDiecut(diecutId)} \ {NoStr}}
  IN  IF nums = {} THEN 0 ELSE SetMax(nums)

\* C1: the serial a call computes is diecutId + "-" + (m + 1) padded with zeros to
\* four digits, m being the largest numeric suffix among the diecut's serial
\* numbers when the call read them, and 0 when the diecut has none.
C1_IssueNextFormat ==
  [][\A p \in Procs :
       (pc[p] = "gsn_getMax" /\ pc'[p] = "gsn_create")
         => loc'[p].newSN = SnOf(req[p].id, MaxSuffixOf(req[p].id) + 1)]_vars

\* C1 witness: over suffixes 0001..0007 a call answered 201 with "A-0008", and over
\* a diecut without serial numbers another answered 201 with "B-0001".
C1_Witness ==
  \E p, q \in Procs :
    /\ HoldsSerial(p) /\ resp[p].code = 201 /\ loc[p].newSN = SnOf(A, 8)
    /\ HoldsSerial(q) /\ resp[q].code = 201 /\ loc[q].newSN = SnOf(B, 1)
    /\ \A n \in 1..8 : SnOf(A, n) \in DOMAIN ledger

\* C2: two calls hold the same new serial exactly when they are for the same diecut
\* and read the same maximum: nothing between the read and the insert tells them
\* apart.
C2_SameReadSameSerial ==
  \A p, q \in Procs :
    (p # q /\ HoldsSerial(p) /\ HoldsSerial(q))
      => ((loc[p].newSN = loc[q].newSN)
            <=> (loc[p].diecutId = loc[q].diecutId /\ loc[p].maxSN = loc[q].maxSN))

\* C2 witness: one call has inserted and returned a serial while a concurrent call
\* for the same diecut, having read the same maximum, holds the same serial.
C2_Witness ==
  \E p, q \in Procs :
    /\ p # q /\ HoldsSerial(p) /\ HoldsSerial(q)
    /\ resp[p].code = 201
    /\ loc[q].newSN = loc[p].newSN
    /\ loc[q].maxSN = loc[p].maxSN
    /\ loc[p].newSN \in DOMAIN ledger
    /\ pc[q] = "gsn_create"

(***************************************************************************)
(* Wear and priority engine: the aggregation of getStatusReport and        *)
(* getStatusSummary over the production log.                                *)
(***************************************************************************)
\* TO_DATE('01/09/2018','dd/mm/yyyy'), on the model's scale of dates
Epoch == 1

\* SUM of a function f over the set S of its arguments
RECURSIVE SumOver(_, _)
SumOver(S, f) ==
  IF S = {} THEN 0
  ELSE LET x == CHOOSE y \in S : TRUE IN f[x] + SumOver(S \ {x}, f)

\* MAX(RESET_DATE) ... GROUP BY DIECUT_SN, NULL without a reset row
LastReset(sn) ==
  LET ds == {r.resetDate : r \in {h \in resetHist : h.sn = sn}}
  IN  IF ds = {} THEN NullNum ELSE SetMax(ds)

\* WD JOIN SN ... WHERE NVL(WD.COUNTER_QTY, 0) > 0 AND WD.CR_DATE > NVL(HS.LAST_MODIFY, epoch)
CountedLogs ==
  {i \in 1..Len(wip) :
     /\ wip[i].sn \in DOMAIN ledger
     /\ Nvl(wip[i].qty, 0) > 0
     /\ wip[i].crDate > Nvl(LastReset(wip[i].sn), Epoch)}

LogsOf(sn) == {i \in CountedLogs : wip[i].sn = sn}

Qty == [i \in 1..Len(wip) |-> Nvl(wip[i].qty, 0)]
QtySquared == [i \in 1..Len(wip) |-> Nvl(wip[i].qty, 0) * Nvl(wip[i].qty, 0)]

\* UD.USED: SUM(WD.COUNTER_QTY) GROUP BY WD.DIECUT_SN; no row (NULL) without a counted log
Used(sn) == IF LogsOf(sn) = {} THEN NullNum ELSE SumOver(LogsOf(sn), Qty)

\* the window OVER (ORDER BY WD.DIECUT_SN): the counted logs of every serial
\* number up to and including sn in string order
WindowOf(sn) == {i \in CountedLogs : StrLeq(wip[i].sn, sn)}

\* TRUNC(age - (AVG + 1.96 * (STDDEV / SQRT(COUNT)))) in exact arithmetic, for a
\* window of n rows whose quantities sum to s and whose squares sum to q.
\* STDDEV is the sample deviation, 0 for one row.  With x the untruncated value
\* and 1.96 = 49/25, x >= t iff m >= 0 and 625 (n-1) m^2 >= 2401 (n q - s^2),
\* where m = n (age - t) - s; x lies between age - 2 s and age.
TruncMax(age, n, s, q) ==
  LET d == n * q - s * s
      m(t) == n * (age - t) - s
      Ge(t) == IF n = 1 THEN age - s >= t
               ELSE m(t) >= 0 /\ 625 * (n - 1) * m(t) * m(t) >= 2401 * d
      Le(t) == IF n = 1 THEN age - s <= t
               ELSE m(t) <= 0 \/ 625 * (n - 1) * m(t) * m(t) <= 2401 * d
      range == (age - 2 * s - 2)..(age + 1)
  IN  IF Ge(0) THEN CHOOSE t \in range : Ge(t) /\ ~Ge(t + 1)
      ELSE CHOOSE t \in range : Le(t) /\ ~Le(t - 1)

\* NE.DIECUT_MAX truncated, for a serial number with a counted log
DiecutMax(sn) ==
  LET w == WindowOf(sn)
  IN  TruncMax(Nvl(ledger[sn].diecutAge, 0), Cardinality(w),
               SumOver(w, Qty), SumOver(w, QtySquared))

Ages(sn) == Nvl(ledger[sn].diecutAge, 0)

\* a threshold rule without the zero-usage case
DiecutNearExp_NoZeroUse(sn) ==
  IF Ages(sn) = 0 THEN 0
  ELSE IF Nvl(Used(sn), 0) = 0 THEN 0
  ELSE DiecutMax(sn)

\* CASE WHEN NVL(age,0) = 0 THEN 0 WHEN NVL(UD.USED,0) = 0 THEN NVL(age,0) ELSE TRUNC(DIECUT_MAX)
DiecutNearExp(sn) ==
  IF Ages(sn) = 0 THEN 0
  ELSE IF Nvl(Used(sn), 0) = 0 THEN Ages(sn)
  ELSE DiecutMax(sn)

\* a remaining life that is not clamped at zero
Remain_NoClamp(sn) ==
  IF Used(sn) = NullNum THEN Ages(sn) ELSE Ages(sn) - Nvl(Used(sn), 0)

\* CASE WHEN USED IS NULL THEN age WHEN age - used < 0 THEN 0 ELSE age - used
Remain(sn) ==
  IF Used(sn) = NullNum THEN Ages(sn)
  ELSE IF Ages(sn) - Nvl(Used(sn), 0) < 0 THEN 0
  ELSE Ages(sn) - Nvl(Used(sn), 0)

\* a classification whose near-expiry test is strict
PriorityOf_Strict(remain, nearExp) ==
  IF remain <= 0 THEN "1" ELSE IF remain < nearExp THEN "2" ELSE "3"

\* CASE WHEN REMAIN <= 0 THEN '1' WHEN REMAIN <= DIECUT_NEAR_EXP THEN '2' ELSE '3'
PriorityOf(remain, nearExp) ==
  IF remain <= 0 THEN "1" ELSE IF remain <= nearExp THEN "2" ELSE "3"

Priority(sn) == PriorityOf(Remain(sn), DiecutNearExp(sn))

(***************************************************************************)
(* getStatusReport and getStatusSummary.                                   *)
(***************************************************************************)
\* a WHERE clause that forgets the retired status
Reportable_NoStatus(sn) == ledger[sn].tlStatus = "GOOD"

\* WHERE NVL(SN.STATUS,'F') <> 'F' AND SN.TL_STATUS = 'GOOD'
Reportable(sn) ==
  /\ (IF ledger[sn].status = NULL THEN "F" ELSE ledger[sn].status) # "F"
  /\ ledger[sn].tlStatus = "GOOD"

\* if (filters.diecutId) whereClause += " AND SN.DIECUT_ID = :diecutId"
MatchesId(sn, filters) ==
  filters.diecutId = NoStr \/ ledger[sn].diecutId = filters.diecutId

\* a type filter that looks at the first code only
MatchesType_FirstOnly(sn, filters) ==
  LET codes == filters.diecutType.codes
  IN  Len(codes) = 0 \/ (codes[1] # "" /\ ledger[sn].diecutType = codes[1])

\* if (filters.diecutType && filters.diecutType.length > 0): IN (...) for an array
\* of several codes, = :diecutType for one code; a comparison with NULL or the
\* empty string matches no row
MatchesType(sn, filters) ==
  LET codes == filters.diecutType.codes
      t     == ledger[sn].diecutType
  IN  IF Len(codes) = 0 THEN TRUE
      ELSE IF filters.diecutType.isArray /\ Len(codes) > 1
        THEN t # NULL /\ \E i \in 1..Len(codes) : codes[i] # "" /\ codes[i] = t
      ELSE t # NULL /\ codes[1] # "" /\ t = codes[1]

\* LEFT JOIN KPDBA.DIECUT_MODIFY DM ON (DSN.DIECUT_SN = DM.DIECUT_SN
\*   AND DM.END_TIME IS NULL AND DM.CANCEL_FLAG = 'F')
OpenMods(sn) ==
  {i \in 1..Len(modify) :
     modify[i].sn = sn /\ modify[i].endTime = NULL /\ modify[i].cancelFlag = "F"}

\* one output row: the ledger row with its computed columns and the joined
\* modification row i (0 when the left join found none)
ReportRow(sn, i) ==
  [diecutId |-> ledger[sn].diecutId, diecutSn |-> sn, ages |-> Ages(sn),
   used |-> Nvl(Used(sn), 0), remain |-> Remain(sn), nearExp |-> DiecutNearExp(sn),
   priority |-> Priority(sn), status |-> ledger[sn].status,
   diecutType |-> ledger[sn].diecutType, tlStatus |-> ledger[sn].tlStatus,
   dm |-> i, modifyType |-> IF i = 0 THEN NULL ELSE modify[i].modifyType]

NoFilters == [diecutId |-> NoStr, diecutType |-> [isArray |-> FALSE, codes |-> <<>>],
              priority |-> NULL]

\* the rows of DIECUT_SN that pass the inner WHERE clause with the filters added
SelectedSns(filters) ==
  {sn \in DOMAIN ledger : Reportable(sn) /\ MatchesId(sn, filters) /\ MatchesType(sn, filters)}

\* DiecutStatus.getStatusReport.  With filters.priority the statement is wrapped in
\* SELECT * FROM (...) and a bind named priority is added that the statement has no
\* placeholder for: the execution raises ORA-01036.
getStatusReport(filters) ==
  IF filters.priority # NULL THEN [ok |-> FALSE, rows |-> {}]
  ELSE [ok |-> TRUE,
        rows |-> UNION {
          {ReportRow(sn, i) : i \in (IF OpenMods(sn) = {} THEN {0} ELSE OpenMods(sn))} :
            sn \in SelectedSns(filters)}]

PriorityDescription(prio) ==
  IF prio = "1" THEN "expired" ELSE IF prio = "2" THEN "near expiry" ELSE "good"

\* DiecutStatus.getStatusSummary: COUNT(*) GROUP BY PRIORITY over the same inner
\* query, without the joins of the report; a priority without a row has no entry
getStatusSummary ==
  LET counted(prio) == {sn \in DOMAIN ledger : Reportable(sn) /\ Priority(sn) = prio}
      present == {prio \in {"1", "2", "3"} : counted(prio) # {}}
  IN  [total |-> Cardinality({sn \in DOMAIN ledger : Reportable(sn)}),
       priorities |-> [d \in {PriorityDescription(prio) : prio \in present} |->
          Cardinality(counted(CHOOSE prio \in present : PriorityDescription(prio) = d))]]

\* GET /status?diecutId=&diecutType=&priority= ; diecutType is the list that
\* req.query.diecutType.split(',') yields, "absent" when the parameter is missing
ReportQueries ==
  {[diecutId |-> NoStr, diecutType |-> "absent", priority |-> NULL],
   [diecutId |-> NoStr, diecutType |-> <<"">>, priority |-> NULL],
   [diecutId |-> NoStr, diecutType |-> <<"DC", "BD">>, priority |-> NULL],
   [diecutId |-> A, diecutType |-> <<"DC">>, priority |-> NULL],
   [diecutId |-> NoStr, diecutType |-> <<"DC", "BD">>, priority |-> "2"]}

\* getDiecutStatusReport with the query q
statusReportRequest(p, q) ==
  IF q.diecutType = "absent"
    THEN \* req.query.diecutType.split is read off undefined
         /\ CanStart(p)
         /\ started' = started + 1
         /\ req' = [req EXCEPT ![p] = [op |-> "getDiecutStatusReport", query |-> q]]
         /\ loc' = [loc EXCEPT ![p] = NoLoc]
         /\ Fail(p, 500)
         /\ UNCHANGED store
    ELSE Begin(p, "gdsr_query", [op |-> "getDiecutStatusReport", query |-> q])

\* await DiecutStatus.getStatusReport(filters), then the response
gdsr_query(p) ==
  /\ pc[p] = "gdsr_query"
  /\ LET q == req[p].query
         r == getStatusReport([diecutId |-> q.diecutId,
                               diecutType |-> [isArray |-> TRUE, codes |-> q.diecutType],
                               priority |-> q.priority])
     IN  IF r.ok THEN Respond(p, 200, [count |-> Cardinality(r.rows), diecuts |-> r.rows])
         ELSE Fail(p, 500)
  /\ UNCHANGED <<store, req, loc, started>>

getDiecutStatusReport(p) == \E q \in ReportQueries : statusReportRequest(p, q)

\* the report over every type in use
AllTypesQuery == [diecutId |-> NoStr, diecutType |-> <<"DC", "BD">>, priority |-> NULL]

getDiecutStatusReportAll(p) == statusReportRequest(p, AllTypesQuery)

\* getDiecutStatusSummary
getDiecutStatusSummary(p) == Begin(p, "gdss_query", [op |-> "getDiecutStatusSummary"])

\* await DiecutStatus.getStatusSummary(), then the response
gdss_query(p) ==
  /\ pc[p] = "gdss_query"
  /\ Respond(p, 200, [summary |-> getStatusSummary])
  /\ UNCHANGED <<store, req, loc, started>>

(***************************************************************************)
(* The wear report over ledgers with usage logs.                           *)
(***************************************************************************)
SN1 == SnOf(A, 1)
SN2 == SnOf(A, 2)
SN3 == SnOf(B, 1)
SN4 == SnOf(B, 2)
SN5 == SnOf(B, 3)
SN6 == SnOf(B, 4)

\* rows of KPDBA.WIP_DIECUT: counted ones, one dated at the epoch, one without
\* a quantity
Log(sn, qty, crDate) == [sn |-> sn, qty |-> qty, crDate |-> crDate]

WearLogSeeds ==
  {<<>>,
   <<Log(SN1, 5, Epoch)>>,
   <<Log(SN1, 5, 2)>>,
   <<Log(SN1, 1, 2)>>,
   <<Log(SN1, 20, 2)>>,
   <<Log(SN1, 20, 2), Log(SN1, 1, 2)>>,
   <<Log(SN1, 20, 2), Log(SN1, 20, 3)>>,
   <<Log(SN1, 20, 2), Log(SN2, 1, 2)>>,
   <<Log(SN2, 1, 2), Log(SN2, NullNum, 2)>>,
   <<Log(SN2, 20, 3), Log(SN2, 1, 2)>>,
   <<Log(SN1, 1, 2), Log(SN2, 1, 2), Log(SN2, 20, 3)>>}

WearAges1 == {NullNum, 0, 5, 30}
WearAges2 == {0, 5}

LedgerRow(diecutId, diecutType, diecutAge, status, tlStatus) ==
  [diecutId |-> diecutId, diecutType |-> diecutType, diecutAge |-> diecutAge,
   status |-> status, tlStatus |-> tlStatus, dueDate |-> NULL,
   probDesc |-> NULL, bladeChangeCount |-> NullNum]

WearLedger(a1, a2) ==
  (SN1 :> LedgerRow(A, "DC", a1, "N", "GOOD")) @@
  (SN2 :> LedgerRow(A, "BD", a2, "T", "GOOD")) @@
  (SN3 :> LedgerRow(B, "BD", 7, "N", "GOOD")) @@
  (SN4 :> LedgerRow(B, "DC", 7, "F", "GOOD")) @@
  (SN5 :> LedgerRow(B, "DC", 7, "N", "NG")) @@
  (SN6 :> LedgerRow(B, "DC", 7, NULL, "GOOD"))

InitWear ==
  /\ diecut = [d \in {A, B} |-> CatalogRow("DC")]
  /\ \E a1 \in WearAges1, a2 \in WearAges2 : ledger = WearLedger(a1, a2)
  /\ modify = <<>>
  /\ wip \in WearLogSeeds
  /\ resetHist \in {{}, {[sn |-> SN2, resetDate |-> 2]}}
  /\ schema = [tlStatus |-> "GOOD", cancelFlag |-> "F"]
  /\ InitHandlers

\* the two queries write nothing: one client asking in turn sees every answer
NextWear ==
  \E p \in {1} :
    \/ getDiecutStatusReport(p)
    \/ gdsr_query(p)
    \/ getDiecutStatusSummary(p)
    \/ gdss_query(p)

SpecWear == InitWear /\ [][NextWear]_vars

(***************************************************************************)
(* POST /cancelorder and POST /orderchange.                                *)
(***************************************************************************)
\* a row of KPDBA.DIECUT_MODIFY as an insert leaves it: the columns of the type
\* change request (MODIFY_TYPE_APPV_FLAG, MODIFY_TYPE_REQ_FROM, MODIFY_TYPE_REQ_TO,
\* MODIFY_TYPE_REQ_REMARK) are in no INSERT and start null
ModRow(sn, modifyType, endTime, cancelFlag) ==
  [sn |-> sn, modifyType |-> modifyType, endTime |-> endTime, cancelFlag |-> cancelFlag,
   appvFlag |-> NULL, reqFrom |-> NULL, reqTo |-> NULL, reqRemark |-> NULL,
   cancelDate |-> NULL, cancelOrgId |-> NULL, cancelUserId |-> NULL]

\* req.user as the protect middleware sets it: every client is its own employee
\* of the one organisation
User(p) == [ORG_ID |-> "ORG", EMP_ID |-> p]

\* the bodies of POST /cancelorder
CancelBodies ==
  {[diecutId |-> A, diecutSN |-> SN1],
   [diecutId |-> A, diecutSN |-> NoStr],
   [diecutId |-> NoStr, diecutSN |-> SN1]}

\* a handler that passes every body on to the store
cancelOrder_Unvalidated(p) ==
  \E body \in CancelBodies : Begin(p, "co_modify", [op |-> "cancelOrder"] @@ body)

\* exports.cancelOrder: 400 without diecutId or diecutSN
cancelOrder(p) ==
  \E body \in CancelBodies :
    LET r == [op |-> "cancelOrder"] @@ body
    IN  IF body.diecutId = NoStr \/ body.diecutSN = NoStr
          THEN /\ CanStart(p)
               /\ started' = started + 1
               /\ req' = [req EXCEPT ![p] = r]
               /\ loc' = [loc EXCEPT ![p] = NoLoc]
               /\ Fail(p, 400)
               /\ UNCHANGED store
          ELSE Begin(p, "co_modify", r)

\* UPDATE KPDBA.DIECUT_MODIFY SET CANCEL_FLAG = 'T', CANCEL_DATE = SYSDATE,
\* CANCEL_ORG_ID = :orgId, CANCEL_USER_ID = :userId, MODIFY_TYPE = 'F'
\* WHERE DIECUT_SN = :diecut_sn
co_modify(p) ==
  /\ pc[p] = "co_modify"
  /\ modify' = [i \in 1..Len(modify) |->
                  IF modify[i].sn = req[p].diecutSN
                    THEN [modify[i] EXCEPT !.cancelFlag = "T", !.modifyType = "F",
                                           !.cancelDate = "SYSDATE",
                                           !.cancelOrgId = User(p).ORG_ID,
                                           !.cancelUserId = User(p).EMP_ID]
                    ELSE modify[i]]
  /\ Goto(p, "co_sn")
  /\ UNCHANGED <<diecut, ledger, wip, resetHist, schema, req, loc, resp, started>>

\* a cancellation that leaves the due date on the serial number
co_sn_KeepsDueDate(p) ==
  /\ pc[p] = "co_sn"
  /\ ledger' = [sn \in DOMAIN ledger |->
                  IF sn = req[p].diecutSN
                    THEN [ledger[sn] EXCEPT !.status = "F"]
                    ELSE ledger[sn]]
  /\ Respond(p, 200, [diecutSN |-> req[p].diecutSN, result |-> [success |-> TRUE]])
  /\ UNCHANGED <<diecut, modify, wip, resetHist, schema, req, loc, started>>

\* UPDATE KPDBA.DIECUT_SN SET STATUS = 'F', DUE_DATE = NULL WHERE DIECUT_SN = :diecut_sn
co_sn(p) ==
  /\ pc[p] = "co_sn"
  /\ ledger' = [sn \in DOMAIN ledger |->
                  IF sn = req[p].diecutSN
                    THEN [ledger[sn] EXCEPT !.status = "F", !.dueDate = NULL]
                    ELSE ledger[sn]]
  /\ Respond(p, 200, [diecutSN |-> req[p].diecutSN, result |-> [success |-> TRUE]])
  /\ UNCHANGED <<diecut, modify, wip, resetHist, schema, req, loc, started>>

\* the bodies of POST /orderchange: a blade change, a repair without, with an
\* empty and with a given problem description
OrderChanges ==
  {[modifyType |-> "B", problemDesc |-> NULL],
   [modifyType |-> "E", problemDesc |-> NULL],
   [modifyType |-> "E", problemDesc |-> ""],
   [modifyType |-> "E", problemDesc |-> "worn"]}

\* a check that lets every repair through
RepairLacksDesc_Never(b) == FALSE

\* modifyType === 'E' && !problemDesc
RepairLacksDesc(b) == b.modifyType = "E" /\ b.problemDesc \in {NULL, ""}

\* the bodies of POST /orderchange: the changes on A-0001, and a blade change
\* without diecutSN and one without diecutId
OrderBodies ==
  {[diecutId |-> A, diecutSN |-> SN1] @@ b : b \in OrderChanges}
    \cup {[diecutId |-> A, diecutSN |-> NoStr, modifyType |-> "B", problemDesc |-> NULL],
          [diecutId |-> NoStr, diecutSN |-> SN1, modifyType |-> "B", problemDesc |-> NULL]}

\* exports.orderChange: 400 without diecutId, diecutSN or modifyType, and for a
\* repair without a problem description, both answered by the handler itself
\* with res.status(400).json({ success: false, message })
orderChange(p) ==
  \E b \in OrderBodies :
    LET r == [op |-> "orderChange"] @@ b
    IN  IF b.diecutId = NoStr \/ b.diecutSN = NoStr \/ b.modifyType = NULL
             \/ RepairLacksDesc(b)
          THEN /\ CanStart(p)
               /\ started' = started + 1
               /\ req' = [req EXCEPT ![p] = r]
               /\ loc' = [loc EXCEPT ![p] = NoLoc]
               /\ Respond(p, 400, NULL)
               /\ UNCHANGED store
          ELSE Begin(p, "oc_update", r)

\* UPDATE kpdba.diecut_sn SET status = :modifyType, prob_desc = :problemDesc
\* (bound as problemDesc || null)
\* WHERE diecut_id = :diecutId AND diecut_sn = :diecutSN
oc_update(p) ==
  /\ pc[p] = "oc_update"
  /\ ledger' = [sn \in DOMAIN ledger |->
                  IF sn = req[p].diecutSN /\ ledger[sn].diecutId = req[p].diecutId
                    THEN [ledger[sn] EXCEPT !.status = req[p].modifyType,
                                            !.probDesc = IF req[p].problemDesc = ""
                                                           THEN NULL
                                                           ELSE req[p].problemDesc]
                    ELSE ledger[sn]]
  /\ IF req[p].modifyType = "B"
       THEN Goto(p, "oc_increment") /\ UNCHANGED resp
       ELSE Respond(p, 200, NULL)
  /\ UNCHANGED <<diecut, modify, wip, resetHist, schema, req, loc, started>>

\* an increment that writes 1 whatever the count was
oc_increment_Overwrite(p) ==
  /\ pc[p] = "oc_increment"
  /\ ledger' = [sn \in DOMAIN ledger |->
                  IF sn = req[p].diecutSN /\ ledger[sn].diecutId = req[p].diecutId
                    THEN [ledger[sn] EXCEPT !.bladeChangeCount = 1]
                    ELSE ledger[sn]]
  /\ Respond(p, 200, NULL)
  /\ UNCHANGED <<diecut, modify, wip, resetHist, schema, req, loc, started>>

\* UPDATE kpdba.diecut_sn SET blade_change_count = NVL(blade_change_count, 0) + 1
oc_increment(p) ==
  /\ pc[p] = "oc_increment"
  /\ ledger' = [sn \in DOMAIN ledger |->
                  IF sn = req[p].diecutSN /\ ledger[sn].diecutId = req[p].diecutId
                    THEN [ledger[sn] EXCEPT !.bladeChangeCount = Nvl(@, 0) + 1]
                    ELSE ledger[sn]]
  /\ Respond(p, 200, NULL)
  /\ UNCHANGED <<diecut, modify, wip, resetHist, schema, req, loc, started>>

\* A-0001 is on order: it has a due date
InitCancel ==
  /\ diecut = [d \in {A, B} |-> CatalogRow("DC")]
  /\ ledger = [WearLedger(5, 5) EXCEPT ![SN1].dueDate = "2025-06-01"]
  /\ modify \in {<<>>, <<ModRow(SN1, "B", NULL, "F")>>}
  /\ wip \in {<<>>, <<Log(SN1, 1, 2)>>}
  /\ resetHist = {}
  /\ schema = [tlStatus |-> "GOOD", cancelFlag |-> "F"]
  /\ InitHandlers

NextCancel ==
  \E p \in Procs :
    \/ cancelOrder(p)
    \/ co_modify(p)
    \/ co_sn(p)
    \/ orderChange(p)
    \/ oc_update(p)
    \/ oc_increment(p)
    \/ getDiecutStatusReportAll(p)
    \/ gdsr_query(p)
    \/ getDiecutStatusSummary(p)
    \/ gdss_query(p)

SpecCancel == InitCancel /\ [][NextCancel]_vars

(***************************************************************************)
(* POST /savediecutmodidetail  (saveDiecutModiSN, DiecutSN.saveBlade)      *)
(***************************************************************************)
\* an item of the request body
BladeItem(sn, diecutAge, status, endTime) ==
  [diecutId |-> A, diecutSN |-> sn, diecutAge |-> diecutAge, status |-> status,
   endTime |-> endTime]

\* the bodies of the requests: an object is handled as a list of one item; the
\* last body is a list whose second item has no diecutId
BladeBodies ==
  {<<BladeItem(SN1, 5, "B", NULL)>>,
   <<BladeItem(SN2, 5, "B", NULL)>>,
   <<BladeItem(SN2, NullNum, "E", "2025-01-01")>>,
   <<BladeItem(NoStr, 5, "B", NULL)>>,
   <<BladeItem(SN2, 5, "B", NULL), [BladeItem(SN1, 5, "B", NULL) EXCEPT !.diecutId = NoStr]>>}

\* the item the handler is working on
Item(p) == req[p].items[loc[p].i]

\* diecutAge || 0
AgeOrZero(age) == IF age = NullNum THEN 0 ELSE age

\* exports.saveDiecutModiSN: 400 when an item lacks diecutId or diecutSN
saveDiecutModiSN(p) ==
  \E items \in BladeBodies :
    IF \E i \in 1..Len(items) : items[i].diecutId = NoStr \/ items[i].diecutSN = NoStr
      THEN /\ CanStart(p)
           /\ started' = started + 1
           /\ req' = [req EXCEPT ![p] = [op |-> "saveDiecutModiSN", items |-> items]]
           /\ loc' = [loc EXCEPT ![p] = NoLoc]
           /\ Fail(p, 400)
           /\ UNCHANGED store
      ELSE /\ CanStart(p)
           /\ started' = started + 1
           /\ req' = [req EXCEPT ![p] = [op |-> "saveDiecutModiSN", items |-> items]]
           /\ loc' = [loc EXCEPT ![p] = [i |-> 1, snExists |-> FALSE, diecutType |-> NULL,
                                         recordExists |-> FALSE, results |-> <<>>]]
           /\ pc' = [pc EXCEPT ![p] = "sb_checkSN"]
           /\ resp' = [resp EXCEPT ![p] = NoResp]
           /\ UNCHANGED store

\* a check that never finds the serial number
SnExists_Never(sn) == FALSE

\* SELECT COUNT(*) FROM KPDBA.DIECUT_SN WHERE DIECUT_SN = :diecut_sn, COUNT > 0
SnExists(sn) == sn \in DOMAIN ledger

sb_checkSN(p) ==
  /\ pc[p] = "sb_checkSN"
  /\ LET snExists == SnExists(Item(p).diecutSN)
     IN  /\ loc' = [loc EXCEPT ![p].snExists = snExists]
         /\ Goto(p, IF snExists THEN "sb_updateSN" ELSE "sb_getType")
  /\ UNCHANGED <<store, req, resp, started>>

\* SELECT DIECUT_TYPE ... WHERE DIECUT_ID = :diecut_id AND DIECUT_TYPE IS NOT NULL
\* ORDER BY DIECUT_SN DESC: the type of the first row, null without a row
sb_getType(p) ==
  /\ pc[p] = "sb_getType"
  /\ LET typed == {sn \in DOMAIN ledger :
                     ledger[sn].diecutId = Item(p).diecutId /\ ledger[sn].diecutType # NULL}
         first == CHOOSE sn \in typed : \A o \in typed : StrLeq(o, sn)
     IN  loc' = [loc EXCEPT ![p].diecutType =
                   IF typed = {} THEN NULL ELSE ledger[first].diecutType]
  /\ Goto(p, "sb_insertSN")
  /\ UNCHANGED <<store, req, resp, started>>

\* INSERT INTO KPDBA.DIECUT_SN (..., STATUS, ...) VALUES (..., 'N', ...)
sb_insertSN(p) ==
  /\ pc[p] = "sb_insertSN"
  /\ IF PkViolation(Item(p).diecutSN)
       THEN Fail(p, 500) /\ UNCHANGED ledger
       ELSE /\ ledger' = InsertSn(Item(p).diecutSN,
                           SnRow(Item(p).diecutId, loc[p].diecutType,
                                 AgeOrZero(Item(p).diecutAge), "N"))
            /\ Goto(p, "sb_checkModify")
            /\ UNCHANGED resp
  /\ UNCHANGED <<diecut, modify, wip, resetHist, schema, req, loc, started>>

\* UPDATE KPDBA.DIECUT_SN SET DIECUT_AGE = :diecut_age, STATUS = :status
sb_updateSN(p) ==
  /\ pc[p] = "sb_updateSN"
  /\ ledger' = [sn \in DOMAIN ledger |->
                  IF sn = Item(p).diecutSN
                    THEN [ledger[sn] EXCEPT !.diecutAge = AgeOrZero(Item(p).diecutAge),
                                            !.status = Item(p).status]
                    ELSE ledger[sn]]
  /\ Goto(p, "sb_checkModify")
  /\ UNCHANGED <<diecut, modify, wip, resetHist, schema, req, loc, resp, started>>

\* SELECT COUNT(*) FROM KPDBA.DIECUT_MODIFY WHERE DIECUT_SN = :diecut_sn
sb_checkModify(p) ==
  /\ pc[p] = "sb_checkModify"
  /\ loc' = [loc EXCEPT ![p].recordExists =
               \E i \in 1..Len(modify) : modify[i].sn = Item(p).diecutSN]
  /\ Goto(p, "sb_modify")
  /\ UNCHANGED <<store, req, resp, started>>

\* recordExists: UPDATE KPDBA.DIECUT_MODIFY SET END_TIME, MODIFY_TYPE = :status
\* WHERE DIECUT_SN = :diecut_sn, run with modifyParams, which binds ORG_ID and
\* EMP_ID: the UPDATE has no such placeholders, the driver rejects the binds
\* (ORA-01036) and the call ends in the handler's catch with 500.  Otherwise
\* INSERT INTO KPDBA.DIECUT_MODIFY, which has both placeholders and leaves
\* CANCEL_FLAG to the column default.
sb_modify(p) ==
  /\ pc[p] = "sb_modify"
  /\ IF loc[p].recordExists
       THEN Fail(p, 500) /\ UNCHANGED modify
       ELSE /\ modify' = Append(modify, ModRow(Item(p).diecutSN, Item(p).status,
                                               Item(p).endTime, schema.cancelFlag))
            /\ Goto(p, "sb_getUpdated")
            /\ UNCHANGED resp
  /\ UNCHANGED <<diecut, ledger, wip, resetHist, schema, req, loc, started>>

\* the read of the saved row, results.push, then the next item or the response
sb_getUpdated(p) ==
  /\ pc[p] = "sb_getUpdated"
  /\ LET message == IF ~loc[p].snExists THEN "New blade data created"
                    ELSE IF loc[p].recordExists THEN "Blade data updated"
                    ELSE "Blade data created"
         results == Append(loc[p].results,
                           [diecutSN |-> Item(p).diecutSN, message |-> message])
     IN  IF loc[p].i < Len(req[p].items)
           THEN /\ loc' = [loc EXCEPT ![p].i = @ + 1, ![p].results = results]
                /\ Goto(p, "sb_checkSN")
                /\ UNCHANGED resp
           ELSE /\ loc' = [loc EXCEPT ![p].results = results]
                /\ Respond(p, 200, [results |-> results])
  /\ UNCHANGED <<store, req, started>>

BladeLedger == [sn \in {SN1, SN3, SN4} |-> WearLedger(5, 5)[sn]]

\* the column defaults the inserts rely on are not in the sources: either the
\* flags default to 'GOOD' and 'F', or the columns have no default
InitBlade ==
  /\ diecut = [d \in {A, B} |-> CatalogRow("DC")]
  /\ ledger = BladeLedger
  /\ modify = <<>>
  /\ wip = <<Log(SN1, 1, 2)>>
  /\ resetHist = {}
  /\ schema \in {[tlStatus |-> "GOOD", cancelFlag |-> "F"],
                 [tlStatus |-> NULL, cancelFlag |-> NULL]}
  /\ InitHandlers

NextBlade ==
  \E p \in Procs :
    \/ saveDiecutModiSN(p)
    \/ sb_checkSN(p)
    \/ sb_getType(p)
    \/ sb_insertSN(p)
    \/ sb_updateSN(p)
    \/ sb_checkModify(p)
    \/ sb_modify(p)
    \/ sb_getUpdated(p)
    \/ getDiecutStatusReportAll(p)
    \/ gdsr_query(p)
    \/ getDiecutStatusSummary(p)
    \/ gdss_query(p)

SpecBlade == InitBlade /\ [][NextBlade]_vars

(***************************************************************************)
(* POST /savediecut  (saveDiecutSN, DiecutStatus.saveDiecutSNList)         *)
(***************************************************************************)
\* SNList as the list of its DIECUT_SN fields, NoStr for an entry without one
BatchLists ==
  {<<>>, <<SN1, SN2>>, <<SN2, NoStr>>, <<SN2, SN2>>}

BatchBodies ==
  {[diecutId |-> A, SNList |-> l, diecut_TYPE |-> t.type, STATUS |-> t.status] :
     l \in BatchLists, t \in {[type |-> "DC", status |-> "N"], [type |-> "BD", status |-> "T"]}}

\* the next entry after position i that has a DIECUT_SN (the loop continues over
\* entries without one), Len + 1 when the loop is over
NextEntry(list, i) ==
  IF \E j \in (i + 1)..Len(list) : list[j] # NoStr
    THEN CHOOSE j \in (i + 1)..Len(list) :
           list[j] # NoStr /\ \A k \in (i + 1)..(j - 1) : list[k] = NoStr
    ELSE Len(list) + 1

BatchResult(l) ==
  [result |-> [savedCount |-> l.savedCount, modifyCount |-> l.modifyCount,
               skippedCount |-> l.skippedCount]]

\* the loop moves on from the entry at loc.i with the locals l: the next check,
\* or the return of the counts and the response
sdl_continue(p, l) ==
  LET j == NextEntry(req[p].SNList, l.i)
  IN  /\ loc' = [loc EXCEPT ![p] = [l EXCEPT !.i = j]]
      /\ IF j > Len(req[p].SNList)
           THEN Respond(p, 200, BatchResult(l))
           ELSE Goto(p, "sdl_check") /\ UNCHANGED resp

\* a call with this diecutId and SNList has been answered without error
AnsweredBefore(body) ==
  \E q \in Procs :
    /\ pc[q] = "done" /\ req[q].op = "saveDiecutSN" /\ resp[q].code = 200
    /\ req[q].diecutId = body.diecutId /\ req[q].SNList = body.SNList

\* exports.saveDiecutSN: 400 without diecutId or with an empty SNList.  The
\* locals saved and rerun are history: the serial numbers this call has inserted,
\* and whether the same list had been answered without error when it began.
saveDiecutSNOf(p, bodies) ==
  \E body \in bodies :
    LET l0 == [i |-> 0, savedCount |-> 0, modifyCount |-> 0, skippedCount |-> 0,
               saved |-> {}, rerun |-> AnsweredBefore(body)]
        j  == NextEntry(body.SNList, 0)
    IN  /\ CanStart(p)
        /\ started' = started + 1
        /\ req' = [req EXCEPT ![p] = [op |-> "saveDiecutSN"] @@ body]
        /\ loc' = [loc EXCEPT ![p] = [l0 EXCEPT !.i = j]]
        /\ IF body.diecutId = NoStr \/ Len(body.SNList) = 0
             THEN Fail(p, 400)
             ELSE IF j > Len(body.SNList)
               THEN Respond(p, 200, BatchResult(l0))
               ELSE /\ pc' = [pc EXCEPT ![p] = "sdl_check"]
                    /\ resp' = [resp EXCEPT ![p] = NoResp]
        /\ UNCHANGED store

saveDiecutSN(p) == saveDiecutSNOf(p, BatchBodies)

\* a check that moves past an existing serial number without counting it
sdl_check_Uncounted(p) ==
  /\ pc[p] = "sdl_check"
  /\ IF SnExists(req[p].SNList[loc[p].i])
       THEN sdl_continue(p, loc[p])
       ELSE Goto(p, "sdl_insertSN") /\ UNCHANGED <<loc, resp>>
  /\ UNCHANGED <<store, req, started>>

\* checkSNQuery: an existing serial number is counted as skipped
sdl_check(p) ==
  /\ pc[p] = "sdl_check"
  /\ IF SnExists(req[p].SNList[loc[p].i])
       THEN sdl_continue(p, [loc[p] EXCEPT !.skippedCount = @ + 1])
       ELSE Goto(p, "sdl_insertSN") /\ UNCHANGED <<loc, resp>>
  /\ UNCHANGED <<store, req, started>>

\* insertSNQuery: DIECUT_AGE 0, the type and the status of the request.  The
\* statement runs with autoCommit false and executeQuery commits after it.
sdl_insertSN(p) ==
  /\ pc[p] = "sdl_insertSN"
  /\ LET sn == req[p].SNList[loc[p].i]
     IN  IF PkViolation(sn)
           THEN Fail(p, 500) /\ UNCHANGED <<ledger, loc>>
           ELSE /\ ledger' = InsertSn(sn, SnRow(req[p].diecutId, req[p].diecut_TYPE, 0,
                                                req[p].STATUS))
                /\ loc' = [loc EXCEPT ![p].savedCount = @ + 1, ![p].saved = @ \cup {sn}]
                /\ Goto(p, "sdl_insertModify")
                /\ UNCHANGED resp
  /\ UNCHANGED <<diecut, modify, wip, resetHist, schema, req, started>>

\* an insert of the modification row that leaves MODIFY_TYPE out
sdl_insertModify_Unstamped(p) ==
  /\ pc[p] = "sdl_insertModify"
  /\ modify' = Append(modify, ModRow(req[p].SNList[loc[p].i], NULL, NULL, schema.cancelFlag))
  /\ sdl_continue(p, [loc[p] EXCEPT !.modifyCount = @ + 1])
  /\ UNCHANGED <<diecut, ledger, wip, resetHist, schema, req, started>>

\* insertModifyQuery: MODIFY_TYPE = STATUS, no END_TIME, CANCEL_FLAG by default
sdl_insertModify(p) ==
  /\ pc[p] = "sdl_insertModify"
  /\ modify' = Append(modify, ModRow(req[p].SNList[loc[p].i], req[p].STATUS, NULL,
                                     schema.cancelFlag))
  /\ sdl_continue(p, [loc[p] EXCEPT !.modifyCount = @ + 1])
  /\ UNCHANGED <<diecut, ledger, wip, resetHist, schema, req, started>>

InitBatch ==
  /\ diecut = [d \in {A, B} |-> CatalogRow("DC")]
  /\ ledger = BladeLedger
  /\ modify = <<>>
  /\ wip = <<>>
  /\ resetHist = {}
  /\ schema \in {[tlStatus |-> "GOOD", cancelFlag |-> "F"],
                 [tlStatus |-> NULL, cancelFlag |-> NULL]}
  /\ InitHandlers

NextBatch ==
  \E p \in Procs :
    \/ saveDiecutSN(p)
    \/ sdl_check(p)
    \/ sdl_insertSN(p)
    \/ sdl_insertModify(p)

SpecBatch == InitBatch /\ [][NextBatch]_vars

(***************************************************************************)
(* POST /changetyperequest, /approvetypechange and /canceltypechange.      *)
(***************************************************************************)
\* the value a client sends as modifyTypeAppvFlag for a request awaiting approval
Pending == "P"

\* the bodies of POST /changetyperequest
TypeRequests ==
  {[diecutId |-> ids.diecutId, diecutSN |-> ids.diecutSN, modifyTypeAppvFlag |-> Pending,
    changeReason |-> "reason", modifyTypeBefore |-> "DC", modifyType |-> "BD"] :
     ids \in CancelBodies}

\* exports.saveTypeRequest: 400 without diecutId or diecutSN
saveTypeRequest(p) ==
  \E body \in TypeRequests :
    LET r == [op |-> "saveTypeRequest"] @@ body
    IN  IF body.diecutId = NoStr \/ body.diecutSN = NoStr
          THEN /\ CanStart(p)
               /\ started' = started + 1
               /\ req' = [req EXCEPT ![p] = r]
               /\ loc' = [loc EXCEPT ![p] = NoLoc]
               /\ Fail(p, 400)
               /\ UNCHANGED store
          ELSE Begin(p, "stc_update", r)

\* a request that also moves the live status of the serial number
stc_update_Live(p) ==
  /\ pc[p] = "stc_update"
  /\ modify' = [i \in 1..Len(modify) |->
                  IF modify[i].sn = req[p].diecutSN
                    THEN [modify[i] EXCEPT !.appvFlag = req[p].modifyTypeAppvFlag,
                                           !.reqRemark = req[p].changeReason,
                                           !.reqFrom = req[p].modifyTypeBefore,
                                           !.reqTo = req[p].modifyType]
                    ELSE modify[i]]
  /\ ledger' = [sn \in DOMAIN ledger |->
                  IF sn = req[p].diecutSN
                    THEN [ledger[sn] EXCEPT !.status = req[p].modifyType]
                    ELSE ledger[sn]]
  /\ Respond(p, 200, [diecutSN |-> req[p].diecutSN, result |-> [success |-> TRUE]])
  /\ UNCHANGED <<diecut, wip, resetHist, schema, req, loc, started>>

\* DiecutSN.saveTypeChange: UPDATE KPDBA.DIECUT_MODIFY SET MODIFY_TYPE_APPV_FLAG,
\* MODIFY_TYPE_REQ_REMARK, MODIFY_TYPE_REQ_FROM, MODIFY_TYPE_REQ_TO (and the
\* request's date and user) WHERE DIECUT_SN = :diecut_sn
stc_update(p) ==
  /\ pc[p] = "stc_update"
  /\ modify' = [i \in 1..Len(modify) |->
                  IF modify[i].sn = req[p].diecutSN
                    THEN [modify[i] EXCEPT !.appvFlag = req[p].modifyTypeAppvFlag,
                                           !.reqRemark = req[p].changeReason,
                                           !.reqFrom = req[p].modifyTypeBefore,
                                           !.reqTo = req[p].modifyType]
                    ELSE modify[i]]
  /\ Respond(p, 200, [diecutSN |-> req[p].diecutSN, result |-> [success |-> TRUE]])
  /\ UNCHANGED <<diecut, ledger, wip, resetHist, schema, req, loc, started>>

\* a serial number that no ledger of the model holds
SN9 == SnOf(A, 9)

\* the bodies of POST /approvetypechange: for A-0001, without an identifier, and
\* for a serial number that is not in the ledger
TypeApprovals ==
  {[diecutId |-> ids.diecutId, diecutSN |-> ids.diecutSN, modifyType |-> "BD"] :
     ids \in CancelBodies \cup {[diecutId |-> A, diecutSN |-> SN9]}}

\* exports.approveTypeChange: 400 without diecutId or diecutSN
approveTypeChange(p) ==
  \E body \in TypeApprovals :
    LET r == [op |-> "approveTypeChange"] @@ body
    IN  IF body.diecutId = NoStr \/ body.diecutSN = NoStr
          THEN /\ CanStart(p)
               /\ started' = started + 1
               /\ req' = [req EXCEPT ![p] = r]
               /\ loc' = [loc EXCEPT ![p] = NoLoc]
               /\ Fail(p, 400)
               /\ UNCHANGED store
          ELSE Begin(p, "atc_modify", r)

\* an approval whose two updates are one statement
atc_modify_Both(p) ==
  /\ pc[p] = "atc_modify"
  /\ modify' = [i \in 1..Len(modify) |->
                  IF modify[i].sn = req[p].diecutSN
                    THEN [modify[i] EXCEPT !.appvFlag = "A",
                                           !.modifyType = req[p].modifyType]
                    ELSE modify[i]]
  /\ ledger' = [sn \in DOMAIN ledger |->
                  IF sn = req[p].diecutSN
                    THEN [ledger[sn] EXCEPT !.status = req[p].modifyType]
                    ELSE ledger[sn]]
  /\ Goto(p, "atc_sn")
  /\ UNCHANGED <<diecut, wip, resetHist, schema, req, loc, resp, started>>

\* UPDATE KPDBA.DIECUT_MODIFY SET MODIFY_TYPE_APPV_FLAG = 'A', MODIFY_TYPE = :modifyType
\* WHERE DIECUT_SN = :diecut_sn
atc_modify(p) ==
  /\ pc[p] = "atc_modify"
  /\ modify' = [i \in 1..Len(modify) |->
                  IF modify[i].sn = req[p].diecutSN
                    THEN [modify[i] EXCEPT !.appvFlag = "A",
                                           !.modifyType = req[p].modifyType]
                    ELSE modify[i]]
  /\ Goto(p, "atc_sn")
  /\ UNCHANGED <<diecut, ledger, wip, resetHist, schema, req, loc, resp, started>>

\* UPDATE KPDBA.DIECUT_SN SET STATUS = :modifyType WHERE DIECUT_SN = :diecut_sn
atc_sn(p) ==
  /\ pc[p] = "atc_sn"
  /\ ledger' = [sn \in DOMAIN ledger |->
                  IF sn = req[p].diecutSN
                    THEN [ledger[sn] EXCEPT !.status = req[p].modifyType]
                    ELSE ledger[sn]]
  /\ Respond(p, 200, [diecutSN |-> req[p].diecutSN, result |-> [success |-> TRUE]])
  /\ UNCHANGED <<diecut, modify, wip, resetHist, schema, req, loc, started>>

\* exports.cancelTypeChange: 400 without diecutId or diecutSN
cancelTypeChange(p) ==
  \E body \in CancelBodies :
    LET r == [op |-> "cancelTypeChange"] @@ body
    IN  IF body.diecutId = NoStr \/ body.diecutSN = NoStr
          THEN /\ CanStart(p)
               /\ started' = started + 1
               /\ req' = [req EXCEPT ![p] = r]
               /\ loc' = [loc EXCEPT ![p] = NoLoc]
               /\ Fail(p, 400)
               /\ UNCHANGED store
          ELSE Begin(p, "ctc_update", r)

\* DiecutSN.cancelTypeChange: the statement is
\*   UPDATE KPDBA.DIECUT_MODIFY SET MODIFY_TYPE_APPV_FLAG = NULL, WHERE DIECUT_SN = :diecut_sn
\* and the comma before WHERE makes the store reject it (ORA-01747) whatever the
\* rows are: the call throws into the handler's catch, which answers 500.  The
\* SELECT MODIFY_TYPE and the return of originalType after it are never run.
ctc_update(p) ==
  /\ pc[p] = "ctc_update"
  /\ Fail(p, 500)
  /\ UNCHANGED <<store, req, loc, started>>

\* A-0001 with or without a modification row, as a batch registration leaves it
InitType ==
  /\ diecut = [d \in {A, B} |-> CatalogRow("DC")]
  /\ ledger = BladeLedger
  /\ modify \in {<<>>, <<ModRow(SN1, "N", NULL, "F")>>}
  /\ wip = <<>>
  /\ resetHist = {}
  /\ schema = [tlStatus |-> "GOOD", cancelFlag |-> "F"]
  /\ InitHandlers

NextType ==
  \E p \in Procs :
    \/ saveTypeRequest(p)
    \/ stc_update(p)
    \/ approveTypeChange(p)
    \/ atc_modify(p)
    \/ atc_sn(p)
    \/ cancelTypeChange(p)
    \/ ctc_update(p)

SpecType == InitType /\ [][NextType]_vars

(***************************************************************************)
(* The modification workflow as a whole: blade saves, order changes, type  *)
(* change requests, approvals and cancellations, and order cancellations.  *)
(***************************************************************************)
InitWorkflow ==
  /\ diecut = [d \in {A, B} |-> CatalogRow("DC")]
  /\ ledger = BladeLedger
  /\ modify \in {<<>>, <<ModRow(SN1, "N", NULL, "F")>>}
  /\ wip = <<>>
  /\ resetHist = {}
  /\ schema = [tlStatus |-> "GOOD", cancelFlag |-> "F"]
  /\ InitHandlers

\* the six operations share the store: two clients run them against each other
WorkflowClients == {1, 2}

NextWorkflow ==
  \E p \in WorkflowClients :
    \/ saveDiecutModiSN(p)
    \/ sb_checkSN(p)
    \/ sb_getType(p)
    \/ sb_insertSN(p)
    \/ sb_updateSN(p)
    \/ sb_checkModify(p)
    \/ sb_modify(p)
    \/ sb_getUpdated(p)
    \/ orderChange(p)
    \/ oc_update(p)
    \/ oc_increment(p)
    \/ saveTypeRequest(p)
    \/ stc_update(p)
    \/ approveTypeChange(p)
    \/ atc_modify(p)
    \/ atc_sn(p)
    \/ cancelTypeChange(p)
    \/ ctc_update(p)
    \/ cancelOrder(p)
    \/ co_modify(p)
    \/ co_sn(p)

SpecWorkflow == InitWorkflow /\ [][NextWorkflow]_vars

(***************************************************************************)
(* The catalog: Diecut.delete, Diecut.findById, DiecutSN.findById and      *)
(* DiecutStatus.getDiecutSNList, called as functions of the model layer.   *)
(* A return is an answer with code 200 whose data is the returned value; a *)
(* lookup returns the sequence of its row, empty where the code returns    *)
(* null.                                                                   *)
(***************************************************************************)
\* Diecut.delete(diecutId, updatedBy)
Diecut_delete(p) ==
  \E id \in DiecutIds : Begin(p, "dd_update", [op |-> "Diecut.delete", id |-> id])

\* UPDATE KPDBA.DIECUT SET STATUS = 'INACTIVE' WHERE DIECUT_ID = :diecutId; return true
dd_update(p) ==
  /\ pc[p] = "dd_update"
  /\ diecut' = [d \in DOMAIN diecut |->
                  IF d = req[p].id THEN [diecut[d] EXCEPT !.status = "INACTIVE"]
                                   ELSE diecut[d]]
  /\ Respond(p, 200, TRUE)
  /\ UNCHANGED <<ledger, modify, wip, resetHist, schema, req, loc, started>>

\* Diecut.findById(diecutId)
Diecut_findById(p) ==
  \E id \in DiecutIds : Begin(p, "df_query", [op |-> "Diecut.findById", id |-> id])

\* a lookup that returns the row whatever its status
df_query_AnyStatus(p) ==
  /\ pc[p] = "df_query"
  /\ Respond(p, 200, IF req[p].id \in DOMAIN diecut THEN <<diecut[req[p].id]>> ELSE <<>>)
  /\ UNCHANGED <<store, req, loc, started>>

\* SELECT * FROM KPDBA.DIECUT WHERE DIECUT_ID = :diecutId AND STATUS = 'ACTIVE':
\* the row, null without one
df_query(p) ==
  /\ pc[p] = "df_query"
  /\ Respond(p, 200, IF req[p].id \in DOMAIN diecut /\ diecut[req[p].id].status = "ACTIVE"
                       THEN <<diecut[req[p].id]>> ELSE <<>>)
  /\ UNCHANGED <<store, req, loc, started>>

\* DiecutSN.findById(diecutSn)
DiecutSN_findById(p) ==
  \E sn \in {SN1, SN3, SN9} : Begin(p, "sf_query", [op |-> "DiecutSN.findById", sn |-> sn])

\* SELECT * FROM KPDBA.DIECUT_SN WHERE DIECUT_SN = :diecutSn: the row, null without one
sf_query(p) ==
  /\ pc[p] = "sf_query"
  /\ Respond(p, 200, IF req[p].sn \in DOMAIN ledger THEN <<ledger[req[p].sn]>> ELSE <<>>)
  /\ UNCHANGED <<store, req, loc, started>>

\* DiecutStatus.getDiecutSNList(diecutId)
getDiecutSNList(p) ==
  \E id \in DiecutIds : Begin(p, "gdl_query", [op |-> "getDiecutSNList", id |-> id])

\* SELECT DS.*, DM.* FROM KPDBA.DIECUT_SN DS LEFT JOIN KPDBA.DIECUT_MODIFY DM
\* ON DS.DIECUT_SN = DM.DIECUT_SN WHERE DS.DIECUT_ID = :s_diecut_id
\* ORDER BY DS.DIECUT_SN ASC: the serial numbers in ascending order, each with
\* its modification types (none for a serial number without a row)
gdl_query(p) ==
  /\ pc[p] = "gdl_query"
  /\ LET sns == {sn \in DOMAIN ledger : ledger[sn].diecutId = req[p].id}
         ordered == SortSeq(CHOOSE q \in [1..Cardinality(sns) -> sns] :
                              \A i, j \in 1..Cardinality(sns) : i # j => q[i] # q[j],
                            LAMBDA a, b : a # b /\ StrLeq(a, b))
     IN  Respond(p, 200,
           [rows |-> [i \in 1..Len(ordered) |->
                        [diecutSn |-> ordered[i], status |-> ledger[ordered[i]].status,
                         modifyTypes |-> {modify[k].modifyType : k \in
                            {k \in 1..Len(modify) : modify[k].sn = ordered[i]}}]]])
  /\ UNCHANGED <<store, req, loc, started>>

NextCatalog ==
  \E p \in Procs :
    \/ Diecut_delete(p)
    \/ dd_update(p)
    \/ Diecut_findById(p)
    \/ df_query(p)
    \/ DiecutSN_findById(p)
    \/ sf_query(p)
    \/ getDiecutSNList(p)
    \/ gdl_query(p)

SpecCatalog == InitType /\ [][NextCatalog]_vars

(***************************************************************************)
(* POST /savediecut against a store that can fail: executeQuery rethrows   *)
(* whatever connectToDatabase or connection.execute throws, and            *)
(* saveDiecutSNList and the controller pass it on to the error handler.    *)
(***************************************************************************)
\* exports.saveDiecutSN with lists of two serial numbers that are not in the
\* ledger, once with the same serial number twice and once with an entry
\* without DIECUT_SN between them
saveDiecutSN_Faulty(p) ==
  saveDiecutSNOf(p, {[diecutId |-> A, SNList |-> l, diecut_TYPE |-> "BD", STATUS |-> "T"] :
                       l \in {<<SN2, SN9>>, <<SN2, SN2>>, <<SN2, NoStr, SN9>>}})

\* a failure that takes back the ledger row of the entry it failed on
sdl_fault_RollsBack(p) ==
  /\ pc[p] \in {"sdl_check", "sdl_insertSN", "sdl_insertModify"}
  /\ ledger' = [sn \in DOMAIN ledger \ (IF pc[p] = "sdl_insertModify"
                                          THEN {req[p].SNList[loc[p].i]} ELSE {})
                  |-> ledger[sn]]
  /\ Fail(p, 500)
  /\ UNCHANGED <<diecut, modify, wip, resetHist, schema, req, loc, started>>

\* the awaited executeQuery of the step throws (no connection, or the statement
\* fails): nothing is written by it, nothing written before is taken back, and
\* the call answers 500
sdl_fault(p) ==
  /\ pc[p] \in {"sdl_check", "sdl_insertSN", "sdl_insertModify"}
  /\ Fail(p, 500)
  /\ UNCHANGED <<store, req, loc, started>>

\* the ledger without modification rows
InitFault ==
  /\ diecut = [d \in {A, B} |-> CatalogRow("DC")]
  /\ ledger = BladeLedger
  /\ modify = <<>>
  /\ wip = <<>>
  /\ resetHist = {}
  /\ schema = [tlStatus |-> "GOOD", cancelFlag |-> "F"]
  /\ InitHandlers

NextFault ==
  \E p \in Procs :
    \/ saveDiecutSN_Faulty(p)
    \/ sdl_check(p)
    \/ sdl_insertSN(p)
    \/ sdl_insertModify(p)
    \/ sdl_fault(p)

SpecFault == InitFault /\ [][NextFault]_vars

(***************************************************************************)
(* POST /approvetypechange against a store that can fail, next to readers  *)
(* of the serial number list.                                              *)
(***************************************************************************)
\* the executeQuery of the second update throws (no connection, or the
\* statement fails): DiecutSN.approveTypeChange rethrows, the controller passes
\* the error on and the call answers 500; the first update is not taken back
atc_sn_fault(p) ==
  /\ pc[p] = "atc_sn"
  /\ Fail(p, 500)
  /\ UNCHANGED <<store, req, loc, started>>

NextApproval ==
  \E p \in Procs :
    \/ saveTypeRequest(p)
    \/ stc_update(p)
    \/ approveTypeChange(p)
    \/ atc_modify(p)
    \/ atc_sn(p)
    \/ atc_sn_fault(p)
    \/ getDiecutSNList(p)
    \/ gdl_query(p)

SpecApproval == InitType /\ [][NextApproval]_vars

(***************************************************************************)
(* config/database: executeQuery and executeTransaction, one step for each *)
(* awaited call on the driver.  An operation is a sequence of executeQuery *)
(* calls, as the model functions make them, or one executeTransaction      *)
(* call.  The locals are the variable connection (NULL while undefined),   *)
(* the error caught, the store calls still to make, and as history the     *)
(* numbers of connections the operation has opened and closed.             *)
(***************************************************************************)
MaxCalls == 2

ConnLocals(n) ==
  [connection |-> NULL, error |-> FALSE, callsLeft |-> n, opened |-> 0, closed |-> 0]

\* an operation that awaits n executeQuery calls one after the other
queryOperation(p) ==
  \E n \in 1..MaxCalls :
    /\ CanStart(p)
    /\ started' = started + 1
    /\ req' = [req EXCEPT ![p] = [op |-> "executeQuery", calls |-> n]]
    /\ loc' = [loc EXCEPT ![p] = ConnLocals(n)]
    /\ pc' = [pc EXCEPT ![p] = "eq_connect"]
    /\ resp' = [resp EXCEPT ![p] = NoResp]
    /\ UNCHANGED store

\* connection = await connectToDatabase(dblocate): a connection, or a throw
\* that leaves connection undefined, so that finally closes nothing and the
\* error goes to the caller
eq_connect(p) ==
  /\ pc[p] = "eq_connect"
  /\ \/ /\ loc' = [loc EXCEPT ![p].connection = "open", ![p].opened = @ + 1]
        /\ Goto(p, "eq_execute") /\ UNCHANGED resp
     \/ /\ loc' = [loc EXCEPT ![p].error = TRUE]
        /\ Fail(p, 500)
  /\ UNCHANGED <<store, req, started>>

\* an executeQuery whose catch answers the caller without closing
eq_execute_NoFinally(p) ==
  /\ pc[p] = "eq_execute"
  /\ \/ Goto(p, "eq_close") /\ UNCHANGED <<loc, resp>>
     \/ /\ loc' = [loc EXCEPT ![p].error = TRUE]
        /\ Fail(p, 500)
  /\ UNCHANGED <<store, req, started>>

\* await connection.execute(sql, binds, options); connection.commit(): the
\* result, or a throw that the catch logs and rethrows; finally runs after both
eq_execute(p) ==
  /\ pc[p] = "eq_execute"
  /\ \/ UNCHANGED loc
     \/ loc' = [loc EXCEPT ![p].error = TRUE]
  /\ Goto(p, "eq_close")
  /\ UNCHANGED <<store, req, resp, started>>

\* finally: if (connection) await connection.close(); then the result goes to
\* the caller, which makes its next store call or returns, or the error does
eq_close(p) ==
  /\ pc[p] = "eq_close"
  /\ loc' = [loc EXCEPT ![p].connection = "closed", ![p].closed = @ + 1,
                        ![p].callsLeft = IF loc[p].error THEN @ ELSE @ - 1]
  /\ IF loc[p].error
       THEN Fail(p, 500)
       ELSE IF loc[p].callsLeft = 1
         THEN Respond(p, 200, NULL)
         ELSE Goto(p, "eq_connect") /\ UNCHANGED resp
  /\ UNCHANGED <<store, req, started>>

\* an operation that calls executeTransaction(transactionFunction)
transactionOperation(p) ==
  /\ CanStart(p)
  /\ started' = started + 1
  /\ req' = [req EXCEPT ![p] = [op |-> "executeTransaction", calls |-> 1]]
  /\ loc' = [loc EXCEPT ![p] = ConnLocals(1)]
  /\ pc' = [pc EXCEPT ![p] = "et_connect"]
  /\ resp' = [resp EXCEPT ![p] = NoResp]
  /\ UNCHANGED store

\* connection = await connectToDatabase(dblocate); a throw goes to the catch,
\* which skips the rollback without a connection, and finally closes nothing
et_connect(p) ==
  /\ pc[p] = "et_connect"
  /\ \/ /\ loc' = [loc EXCEPT ![p].connection = "open", ![p].opened = @ + 1]
        /\ Goto(p, "et_begin") /\ UNCHANGED resp
     \/ /\ loc' = [loc EXCEPT ![p].error = TRUE]
        /\ Fail(p, 500)
  /\ UNCHANGED <<store, req, started>>

\* await connection.execute('BEGIN', {}, { autoCommit: false }): 'BEGIN' alone is
\* no statement of the store (an unfinished PL/SQL block), so the call throws
\* and the transaction function and the commit after it are never run
et_begin(p) ==
  /\ pc[p] = "et_begin"
  /\ loc' = [loc EXCEPT ![p].error = TRUE]
  /\ Goto(p, "et_rollback")
  /\ UNCHANGED <<store, req, resp, started>>

\* catch: await connection.rollback(), whose own failure is only logged
et_rollback(p) ==
  /\ pc[p] = "et_rollback"
  /\ Goto(p, "et_close")
  /\ UNCHANGED <<store, req, loc, resp, started>>

\* finally: await connection.close(); the error goes to the caller
et_close(p) ==
  /\ pc[p] = "et_close"
  /\ loc' = [loc EXCEPT ![p].connection = "closed", ![p].closed = @ + 1]
  /\ Fail(p, 500)
  /\ UNCHANGED <<store, req, started>>

NextConn ==
  \E p \in Procs :
    \/ queryOperation(p)
    \/ eq_connect(p)
    \/ eq_execute(p)
    \/ eq_close(p)
    \/ transactionOperation(p)
    \/ et_connect(p)
    \/ et_begin(p)
    \/ et_rollback(p)
    \/ et_close(p)

SpecConn == InitType /\ [][NextConn]_vars

(***************************************************************************)
(* Properties of the wear report.                                          *)
(***************************************************************************)
\* the rows of the report that process p has answered with
ReportOf(p) ==
  IF pc[p] = "done" /\ req[p].op = "getDiecutStatusReport" /\ resp[p].code = 200
    THEN resp[p].data.diecuts ELSE {}

\* C3: a serial number with a positive age and no counted usage is reported with
\* remain = age, threshold = age and priority 3 (good).  The report gives such a
\* row priority 2: remain <= threshold holds with equality.
C3_UnusedIsGood ==
  \A p \in Procs : \A r \in ReportOf(p) :
    (r.ages > 0 /\ r.used = 0)
      => (r.remain = r.ages /\ r.nearExp = r.ages /\ r.priority = "3")

\* an unused serial number of positive age in an answered report
C3_Witness ==
  \E p \in Procs : \E r \in ReportOf(p) :
    r.ages > 0 /\ r.used = 0 /\ r.remain = r.ages /\ r.nearExp = r.ages /\ r.priority = "2"

\* C4: a serial number of age 0 has threshold 0 and priority 1 if it has usage,
\* priority 3 if it has none, and never priority 2.  The report gives it remain 0
\* and so priority 1 whatever its usage.
C4_ZeroAge ==
  \A p \in Procs : \A r \in ReportOf(p) :
    r.ages = 0
      => (r.nearExp = 0 /\ r.priority = (IF r.used > 0 THEN "1" ELSE "3") /\ r.priority # "2")

\* an unused serial number of age 0 in an answered report
C4_Witness ==
  \E p \in Procs : \E r \in ReportOf(p) :
    r.ages = 0 /\ r.used = 0 /\ r.nearExp = 0 /\ r.priority = "1"

\* C5: in every reported row remain = max(0, age - used), so 0 <= remain <= age;
\* the priority is 1 iff remain <= 0, 2 iff 0 < remain <= threshold, 3 otherwise;
\* a row with used >= age has priority 1.
C5_RemainAndPriority ==
  \A p \in Procs : \A r \in ReportOf(p) :
    /\ r.ages >= 0 /\ r.used >= 0
    /\ r.remain = (IF r.ages - r.used > 0 THEN r.ages - r.used ELSE 0)
    /\ 0 <= r.remain /\ r.remain <= r.ages
    /\ (r.priority = "1") <=> (r.remain <= 0)
    /\ (r.priority = "2") <=> (0 < r.remain /\ r.remain <= r.nearExp)
    /\ (r.priority = "3") <=> (r.remain > 0 /\ r.remain > r.nearExp)
    /\ (r.used >= r.ages) => (r.priority = "1")

\* one answered report with all three priorities, a row whose usage exceeds its
\* age, and a used row of positive remaining life above its threshold
C5_Witness ==
  \E p \in Procs :
    /\ \E r \in ReportOf(p) : r.ages > 0 /\ r.used > r.ages /\ r.remain = 0 /\ r.priority = "1"
    /\ \E r \in ReportOf(p) : r.priority = "2"
    /\ \E r \in ReportOf(p) : r.used > 0 /\ r.remain > r.nearExp /\ r.priority = "3"

(***************************************************************************)
(* Properties of the report under cancellation.                            *)
(***************************************************************************)
\* the serial numbers that are neither retired nor without a status and whose
\* tool is in good condition
LiveGood ==
  {sn \in DOMAIN ledger : ledger[sn].status \notin {"F", NULL} /\ ledger[sn].tlStatus = "GOOD"}

SummaryCounts(summary) ==
  [d \in {"expired", "near expiry", "good"} |->
     IF d \in DOMAIN summary.priorities THEN summary.priorities[d] ELSE 0]

\* C6: a report never holds a serial number whose status is 'F' or null or whose
\* tool condition is not GOOD, and a summary counts none: a report answers with
\* rows of LiveGood only, a summary with the size of LiveGood as total and as the
\* sum of its counts; when cancelOrder has written status 'F' the serial number
\* is no row of the report, and it is a row again only once its status is not 'F'.
C6_RetiredNeverReported ==
  [][\A p \in Procs :
       /\ (pc[p] = "gdsr_query" /\ pc'[p] = "done" /\ resp'[p].code = 200)
            => \A r \in resp'[p].data.diecuts : r.diecutSn \in LiveGood
       /\ (pc[p] = "gdss_query" /\ pc'[p] = "done")
            => LET c == SummaryCounts(resp'[p].data.summary)
               IN  /\ resp'[p].data.summary.total = Cardinality(LiveGood)
                   /\ c["expired"] + c["near expiry"] + c["good"] = Cardinality(LiveGood)
       /\ (pc[p] = "co_sn" /\ pc'[p] = "done")
            => req[p].diecutSN \notin SelectedSns(NoFilters)'
       /\ \A sn \in SelectedSns(NoFilters)' : ledger'[sn].status # "F"]_vars

\* a cancelOrder on SN1 has answered, SN1 is retired, and a report answered
\* after that holds other serial numbers but not SN1
C6_Witness ==
  \E p, q \in Procs :
    /\ pc[q] = "done" /\ req[q].op = "cancelOrder" /\ resp[q].code = 200
    /\ req[q].diecutSN = SN1 /\ ledger[SN1].status = "F"
    /\ pc[p] = "done" /\ req[p].op = "getDiecutStatusReport" /\ resp[p].code = 200
    /\ resp[p].data.diecuts # {}
    /\ \A r \in resp[p].data.diecuts : r.diecutSn # SN1 /\ r.status # "F"
    /\ \A sn \in {SN4, SN5, SN6} : \A r \in resp[p].data.diecuts : r.diecutSn # sn

(***************************************************************************)
(* Properties of the filters and of the summary.                           *)
(***************************************************************************)
\* the serial numbers a report with the query q is to hold
Wanted(q) ==
  {sn \in LiveGood :
     /\ q.diecutId = NoStr \/ ledger[sn].diecutId = q.diecutId
     /\ q.diecutType = "absent"
          \/ \E i \in 1..Len(q.diecutType) : q.diecutType[i] = ledger[sn].diecutType
     /\ q.priority = NULL \/ Priority(sn) = q.priority}

\* C7: a report request is answered with rows that satisfy every filter given
\* (diecutId equal, diecutType a member, priority equal) and with every reportable
\* serial number that satisfies them.  A request with a priority filter, and one
\* without the diecutType parameter, is answered with an error and no row.
C7_FiltersHold ==
  \A p \in Procs :
    (pc[p] = "done" /\ req[p].op = "getDiecutStatusReport")
      => /\ resp[p].code = 200
         /\ {r.diecutSn : r \in resp[p].data.diecuts} = Wanted(req[p].query)
         /\ \A r \in resp[p].data.diecuts :
              req[p].query.priority = NULL \/ r.priority = req[p].query.priority

\* a request with priority 2 is answered with an error while a serial number of
\* priority 2 satisfies its filters
C7_Witness ==
  \E p \in Procs :
    /\ pc[p] = "done" /\ req[p].op = "getDiecutStatusReport"
    /\ req[p].query.priority = "2" /\ req[p].query.diecutType # "absent"
    /\ Wanted(req[p].query) # {}
    /\ resp[p].code = 500

\* C8: in every state of the store the summary and the unfiltered report agree:
\* the count of each priority is the number of report rows of that priority, and
\* the total is the sum of the counts and the number of rows of the report.  A
\* serial number with two open modification rows is two rows of the report.
C8_SummaryAgreesWithReport ==
  LET rows == getStatusReport(NoFilters).rows
      summary == getStatusSummary
      c == SummaryCounts(summary)
  IN  /\ \A prio \in {"1", "2", "3"} :
           c[PriorityDescription(prio)] = Cardinality({r \in rows : r.priority = prio})
      /\ summary.total = c["expired"] + c["near expiry"] + c["good"]
      /\ summary.total = Cardinality(rows)

\* two blade saves on SN2 have both answered, SN2 has two open modification
\* rows, and an answered report holds SN2 twice
C8_Witness ==
  \E p \in Procs :
    /\ Cardinality(OpenMods(SN2)) = 2
    /\ pc[p] = "done" /\ req[p].op = "getDiecutStatusReport" /\ resp[p].code = 200
    /\ Cardinality({r \in resp[p].data.diecuts : r.diecutSn = SN2}) = 2
    /\ getStatusSummary.total < resp[p].data.count

(***************************************************************************)
(* Properties of batch registration.                                       *)
(***************************************************************************)
\* process p has answered a batch registration
BatchDone(p) == pc[p] = "done" /\ req[p].op = "saveDiecutSN" /\ resp[p].code # 400

\* process p takes this step of a batch registration
BatchStep(p) ==
  /\ req[p].op = "saveDiecutSN" /\ pc[p] \in {"sdl_check", "sdl_insertSN", "sdl_insertModify"}
  /\ pc'[p] # pc[p] \/ loc'[p] # loc[p]

\* the entries of a list that carry a serial number
WithSn(list) == {i \in 1..Len(list) : list[i] # NoStr}

\* what both readings of C9 share: a call that repeats one answered without error
\* changes no ledger row and no modification row, and is answered with
\* savedCount = 0 and modifyCount = 0
RerunWritesNothing ==
  \A p \in Procs :
    /\ (BatchStep(p) /\ loc[p].rerun) => (ledger' = ledger /\ modify' = modify)
    /\ (BatchDone(p)' /\ loc'[p].rerun)
         => /\ resp'[p].code = 200
            /\ resp'[p].data.result.savedCount = 0
            /\ resp'[p].data.result.modifyCount = 0

\* C9 as stated: the repeated call is answered with skippedCount = the number of
\* entries of snList.
C9_RerunSkipsEveryEntry ==
  [][/\ RerunWritesNothing
     /\ \A p \in Procs :
          (BatchDone(p)' /\ loc'[p].rerun)
            => resp'[p].data.result.skippedCount = Len(req'[p].SNList)]_vars

\* C9, amended: after a batch registration answered without error, the same
\* diecutId and snList again (whatever type and status) is answered with
\* savedCount = 0, modifyCount = 0 and skippedCount = the number of entries that
\* carry a serial number, and changes no ledger row and no modification row.
C9_RerunSkipsEverySn ==
  [][/\ RerunWritesNothing
     /\ \A p \in Procs :
          (BatchDone(p)' /\ loc'[p].rerun)
            => resp'[p].data.result.skippedCount = Cardinality(WithSn(req'[p].SNList))]_vars

\* a list of one existing and one new serial number was answered with 1 saved,
\* 1 skipped, 1 modification; its repetition with another type and status is
\* answered with 0 saved, 2 skipped, and SN2 keeps the type and status of the
\* first call
C9_Witness ==
  \E p, q \in Procs :
    /\ p # q /\ BatchDone(p) /\ BatchDone(q) /\ ~loc[q].rerun /\ loc[p].rerun
    /\ req[q].SNList = <<SN1, SN2>> /\ req[p].SNList = <<SN1, SN2>>
    /\ req[q].diecut_TYPE = "DC" /\ req[p].diecut_TYPE = "BD"
    /\ resp[q].data.result = [savedCount |-> 1, modifyCount |-> 1, skippedCount |-> 1]
    /\ resp[p].data.result = [savedCount |-> 0, modifyCount |-> 0, skippedCount |-> 2]
    /\ ledger[SN2].diecutType = "DC" /\ ledger[SN2].status = "N"

\* the rows of the modification table for a serial number
ModsOf(sn) == {i \in 1..Len(modify) : modify[i].sn = sn}

\* C10: when a batch registration is answered without error, every serial number
\* it saved has a ledger row with the type and the status of the request and
\* exactly one modification row, whose modifyType is that status; the returned
\* modifyCount equals savedCount, the number of serial numbers saved.
C10_SavedRowsArePaired ==
  [][\A p \in Procs :
       (BatchStep(p) /\ pc'[p] = "done" /\ resp'[p].code = 200)
         => /\ \A sn \in loc'[p].saved :
                 /\ sn \in DOMAIN ledger'
                 /\ ledger'[sn].diecutType = req[p].diecut_TYPE
                 /\ ledger'[sn].status = req[p].STATUS
                 /\ ledger'[sn].diecutAge = 0
                 /\ Cardinality(ModsOf(sn)') = 1
                 /\ \A i \in ModsOf(sn)' : modify'[i].modifyType = req[p].STATUS
            /\ resp'[p].data.result.savedCount = Cardinality(loc'[p].saved)
            /\ resp'[p].data.result.modifyCount = resp'[p].data.result.savedCount]_vars

\* a call with the list SN2, SN2 has saved SN2 once and skipped it once, and is
\* answered with 1 saved and 1 modification, while a concurrent call that lost
\* the insert of SN2 is answered with an error
C10_Witness ==
  \E p, q \in Procs :
    /\ p # q /\ BatchDone(p) /\ BatchDone(q)
    /\ resp[p].code = 200 /\ resp[q].code = 500
    /\ loc[p].saved = {SN2} /\ req[p].SNList = <<SN2, SN2>>
    /\ resp[p].data.result = [savedCount |-> 1, modifyCount |-> 1, skippedCount |-> 1]
    /\ ledger[SN2].diecutType = req[p].diecut_TYPE

(***************************************************************************)
(* Properties of the ledger's serial numbers and modification rows.        *)
(***************************************************************************)
\* sn is diecutId, a dash and a sequence of exactly four digits
WellFormedSn(sn, diecutId) ==
  /\ Len(sn) = Len(diecutId) + 5
  /\ SubSeq(sn, 1, Len(diecutId)) = diecutId
  /\ sn[Len(diecutId) + 1] = "-"
  /\ AllDigits(Substr(sn, Len(diecutId) + 2))

\* C11: every serial number a step adds to the ledger is the diecutId of its row,
\* a dash and a four-digit sequence.
C11_AddedSnWellFormed ==
  [][\A sn \in DOMAIN ledger' \ DOMAIN ledger :
       WellFormedSn(sn, ledger'[sn].diecutId)]_vars

\* C11 witness: a call answered 201 over a diecut whose largest suffix was 9999,
\* and the serial number it stored has a sequence of five digits.
C11_Witness ==
  \E p \in Procs :
    /\ HoldsSerial(p) /\ resp[p].code = 201
    /\ SnOf(A, 9999) \in DOMAIN ledger
    /\ loc[p].newSN \in DOMAIN ledger
    /\ ledger[loc[p].newSN].diecutId = A
    /\ Len(loc[p].newSN) = Len(A) + 6

\* the modification rows of sn without END_TIME that no cancellation has flagged
UncancelledOpen(sn) ==
  {i \in 1..Len(modify) :
     modify[i].sn = sn /\ modify[i].endTime = NULL /\ modify[i].cancelFlag # "T"}

\* C12: in every state of the store a serial number has at most one modification
\* row that is open (no END_TIME, not cancelled).
C12_OneOpenModification ==
  \A i \in 1..Len(modify) : Cardinality(UncancelledOpen(modify[i].sn)) <= 1

\* C12 witness: two blade saves for the same serial number have both answered 200
\* with "created", each having found no modification row, and the serial number
\* has two open rows.
C12_Witness ==
  \E p, q \in Procs :
    /\ p # q
    /\ \A r \in {p, q} :
         /\ pc[r] = "done" /\ req[r].op = "saveDiecutModiSN" /\ resp[r].code = 200
         /\ req[r].items[1].diecutSN = SN1
         /\ ~loc[r].recordExists
    /\ Cardinality(UncancelledOpen(SN1)) = 2

(***************************************************************************)
(* Properties of the blade save.                                           *)
(***************************************************************************)
\* modification row i belongs to the item's serial number and carries the
\* fields the item supplies
CarriesFields(row, item) ==
  /\ row.sn = item.diecutSN
  /\ row.modifyType = item.status
  /\ row.endTime = item.endTime

\* the types of the serial numbers of a diecut that have one
SiblingTypes(diecutId) ==
  {ledger[sn].diecutType : sn \in
     {s \in DOMAIN ledger : ledger[s].diecutId = diecutId /\ ledger[s].diecutType # NULL}}

\* C13: a blade save is an upsert.  A serial number it does not find is created
\* with the type of a typed sibling of the same diecut, and without one with no
\* type; then its modification step updates the rows of the serial number when
\* there are some and inserts one when there are none, so that the step never
\* fails and leaves a row that carries the supplied fields; and a call that has
\* answered 200 leaves the serial number in the ledger with such a row.
C13_UpsertSemantics ==
  [][\A p \in Procs :
       /\ (pc[p] = "sb_getType" /\ pc'[p] # pc[p])
            => IF SiblingTypes(Item(p).diecutId) = {}
                 THEN loc'[p].diecutType = NULL
                 ELSE loc'[p].diecutType \in SiblingTypes(Item(p).diecutId)
       /\ (pc[p] = "sb_insertSN" /\ pc'[p] = "sb_checkModify")
            => /\ Item(p).diecutSN \in DOMAIN ledger'
               /\ ledger'[Item(p).diecutSN].diecutType = loc[p].diecutType
       /\ (pc[p] = "sb_modify" /\ pc'[p] # pc[p])
            => /\ pc'[p] = "sb_getUpdated"
               /\ Len(modify') = IF \E i \in 1..Len(modify) : modify[i].sn = Item(p).diecutSN
                                   THEN Len(modify) ELSE Len(modify) + 1
               /\ \E i \in 1..Len(modify') : CarriesFields(modify'[i], Item(p))
       /\ (pc[p] = "sb_getUpdated" /\ pc'[p] = "done" /\ resp'[p].code = 200)
            => \A k \in 1..Len(req[p].items) :
                 /\ req[p].items[k].diecutSN \in DOMAIN ledger'
                 /\ \E i \in 1..Len(modify') : modify'[i].sn = req[p].items[k].diecutSN]_vars

\* C13 witness: a blade save that closes the repair of A-0002 (status 'E', with
\* an end time) found the serial number and its modification row, has set the
\* ledger row's status to 'E', and has answered 500 with the modification row
\* still open and of type 'B'.
C13_Witness ==
  \E p \in Procs :
    /\ pc[p] = "done" /\ req[p].op = "saveDiecutModiSN" /\ resp[p].code = 500
    /\ req[p].items[1] = BladeItem(SN2, NullNum, "E", "2025-01-01")
    /\ loc[p].snExists /\ loc[p].recordExists
    /\ ledger[SN2].status = "E"
    /\ \A i \in 1..Len(modify) :
         modify[i].sn = SN2 => (modify[i].modifyType = "B" /\ modify[i].endTime = NULL)

(***************************************************************************)
(* Properties of POST /orderchange.                                        *)
(***************************************************************************)
\* the step changes the handler state of process p: p is the one that acts
Moves(p) == pc'[p] # pc[p] \/ req'[p] # req[p] \/ resp'[p] # resp[p] \/ loc'[p] # loc[p]

\* process p accepts a request (a refused request that repeats the refused one
\* before it leaves the handler state as it was)
Accepts(p) == started' = started + 1 /\ pc[p] \in {"idle", "done"} /\ Moves(p)

\* C14: a repair (modifyType 'E') whose problemDesc is missing or empty is
\* answered 400 by the step that accepts it, with the store as it was, and never
\* reaches the update; a repair with a problemDesc is not refused, and its update
\* sets the status of the serial number to 'E', stores the problemDesc on it and
\* answers 200.
C14_RepairNeedsDescription ==
  [][\A p \in Procs :
       /\ (req'[p].op = "orderChange" /\ req'[p].modifyType = "E"
             /\ req'[p].problemDesc \in {NULL, ""})
            => /\ pc'[p] = "done" /\ resp'[p].code = 400
               /\ started' # started => store' = store
       /\ (Accepts(p) /\ req'[p].op = "orderChange" /\ req'[p].modifyType = "E"
             /\ req'[p].problemDesc \notin {NULL, ""})
            => pc'[p] = "oc_update" /\ store' = store
       /\ (pc[p] = "oc_update" /\ pc'[p] # pc[p] /\ req[p].modifyType = "E")
            => /\ ledger'[req[p].diecutSN].status = "E"
               /\ ledger'[req[p].diecutSN].probDesc = req[p].problemDesc
               /\ pc'[p] = "done" /\ resp'[p].code = 200]_vars

\* C14 witness: one repair without a problemDesc has been answered 400, another
\* with the problemDesc "worn" 200, and the serial number has status 'E' and
\* that problemDesc.
C14_Witness ==
  \E p, q \in Procs :
    /\ pc[p] = "done" /\ req[p].op = "orderChange" /\ req[p].modifyType = "E"
    /\ req[p].problemDesc = "" /\ resp[p].code = 400
    /\ pc[q] = "done" /\ req[q].op = "orderChange" /\ req[q].modifyType = "E"
    /\ req[q].problemDesc = "worn" /\ resp[q].code = 200
    /\ ledger[SN1].status = "E" /\ ledger[SN1].probDesc = "worn"

\* blade_change_count of sn, null counted as 0
BladeChanges(sn) == Nvl(ledger[sn].bladeChangeCount, 0)

\* C15: the increment step of a blade change (modifyType 'B') raises the count
\* of its serial number by exactly 1 and answers 200; a blade change that names
\* its diecut and serial number answers 200 only through that step, which it
\* takes once after its update; and no other
\* step, of an orderChange with another modifyType or of any other operation,
\* changes a count.  So n answered blade changes, however interleaved, raise
\* the count by n.
C15_BladeChangeCounts ==
  [][\A p \in Procs :
       /\ (pc[p] = "oc_increment" /\ pc'[p] # pc[p])
            => /\ req[p].modifyType = "B"
               /\ Nvl(ledger'[req[p].diecutSN].bladeChangeCount, 0)
                    = BladeChanges(req[p].diecutSN) + 1
               /\ \A sn \in DOMAIN ledger \ {req[p].diecutSN} :
                    ledger'[sn].bladeChangeCount = ledger[sn].bladeChangeCount
               /\ pc'[p] = "done" /\ resp'[p].code = 200
       /\ (pc[p] = "oc_update" /\ pc'[p] # pc[p])
            => pc'[p] = IF req[p].modifyType = "B" THEN "oc_increment" ELSE "done"
       /\ (Accepts(p) /\ req'[p].op = "orderChange" /\ req'[p].modifyType = "B"
             /\ req'[p].diecutId # NoStr /\ req'[p].diecutSN # NoStr)
            => pc'[p] = "oc_update"
       /\ (\A q \in Procs : ~(pc[q] = "oc_increment" /\ pc'[q] # pc[q]))
            => \A sn \in DOMAIN ledger :
                 ledger'[sn].bladeChangeCount = ledger[sn].bladeChangeCount]_vars

\* C15 witness: two blade changes of A-0001, whose count was null, have both
\* answered 200 and the count is 2.
C15_Witness ==
  \E p, q \in Procs :
    /\ p # q
    /\ \A r \in {p, q} :
         /\ pc[r] = "done" /\ req[r].op = "orderChange" /\ req[r].modifyType = "B"
         /\ resp[r].code = 200 /\ req[r].diecutSN = SN1
    /\ ledger[SN1].bladeChangeCount = 2

(***************************************************************************)
(* Properties of the type change workflow.                                 *)
(***************************************************************************)
\* the columns of a modification row that are not part of a type change request
OutsideRequest(row) ==
  [sn |-> row.sn, modifyType |-> row.modifyType, endTime |-> row.endTime,
   cancelFlag |-> row.cancelFlag]

\* C16: the store step of a type change request leaves the ledger as it was,
\* adds and removes no modification row, leaves the rows of other serial numbers
\* as they were, and on the rows of its serial number writes the approval flag,
\* requested-from, requested-to and reason of the request and nothing else.
C16_RequestWritesPendingFields ==
  [][\A p \in Procs :
       (pc[p] = "stc_update" /\ pc'[p] # pc[p])
         => /\ ledger' = ledger
            /\ Len(modify') = Len(modify)
            /\ \A i \in 1..Len(modify) :
                 IF modify[i].sn = req[p].diecutSN
                   THEN /\ OutsideRequest(modify'[i]) = OutsideRequest(modify[i])
                        /\ modify'[i].appvFlag = req[p].modifyTypeAppvFlag
                        /\ modify'[i].reqFrom = req[p].modifyTypeBefore
                        /\ modify'[i].reqTo = req[p].modifyType
                        /\ modify'[i].reqRemark = req[p].changeReason
                   ELSE modify'[i] = modify[i]
            /\ <<diecut, wip, resetHist>>' = <<diecut, wip, resetHist>>]_vars

\* C16 witness: a request from 'DC' to 'BD' on A-0001 has answered 200, the
\* row of A-0001 is pending with both types on it, and the ledger row still has
\* type 'DC' and status 'N'.
C16_Witness ==
  \E p \in Procs :
    /\ pc[p] = "done" /\ req[p].op = "saveTypeRequest" /\ resp[p].code = 200
    /\ \E i \in 1..Len(modify) :
         /\ modify[i].sn = SN1 /\ modify[i].appvFlag = Pending
         /\ modify[i].reqFrom = "DC" /\ modify[i].reqTo = "BD"
    /\ ledger[SN1].diecutType = "DC" /\ ledger[SN1].status = "N"

\* the modification rows of a serial number
RowsOf(sn) == {i \in 1..Len(modify) : modify[i].sn = sn}

\* C17: when a request to the type T is stored on the row of a serial number,
\* the last step of an approval of T leaves the row's approval flag 'A' and
\* both the live diecutType and the live status of the serial number equal to
\* T, and answers 200.
C17_ApprovalSetsTypeAndStatus ==
  [][\A p \in Procs :
       (/\ pc[p] = "atc_sn" /\ pc'[p] # pc[p]
        /\ \E i \in RowsOf(req[p].diecutSN) :
             modify[i].reqTo = req[p].modifyType /\ modify[i].appvFlag = "A")
         => /\ resp'[p].code = 200
            /\ \A i \in RowsOf(req[p].diecutSN) : modify'[i].appvFlag = "A"
            /\ ledger'[req[p].diecutSN].status = req[p].modifyType
            /\ ledger'[req[p].diecutSN].diecutType = req[p].modifyType]_vars

\* C17 witness: after a request from 'DC' to 'BD' on A-0001 an approval of 'BD'
\* has answered 200: the row has the flag 'A', the live status is 'BD' and the
\* live diecutType is still 'DC'.
C17_Witness ==
  \E p \in Procs :
    /\ pc[p] = "done" /\ req[p].op = "approveTypeChange" /\ resp[p].code = 200
    /\ req[p].diecutSN = SN1 /\ req[p].modifyType = "BD"
    /\ \E i \in RowsOf(SN1) :
         modify[i].reqFrom = "DC" /\ modify[i].reqTo = "BD" /\ modify[i].appvFlag = "A"
    /\ ledger[SN1].status = "BD"
    /\ ledger[SN1].diecutType = "DC"

\* C18: the approval flag of a modification row becomes 'A' only from the
\* pending value, and an approval changes the live status of a serial number
\* only when a request has been stored on a row of that serial number.
C18_ApprovalNeedsPendingRequest ==
  [][/\ \A i \in 1..Len(modify) :
          (i <= Len(modify') /\ modify'[i].appvFlag = "A" /\ modify[i].appvFlag # "A")
            => modify[i].appvFlag = Pending
     /\ \A p \in Procs :
          (pc[p] = "atc_sn" /\ pc'[p] # pc[p] /\ ledger' # ledger)
            => \E i \in RowsOf(req[p].diecutSN) : modify[i].reqTo # NULL]_vars

\* C18 witness: an approval of 'BD' on A-0001 has answered 200 although no
\* request was ever stored on the row of A-0001; the row has the flag 'A' and the
\* live status is 'BD'.
C18_Witness ==
  \E p \in Procs :
    /\ pc[p] = "done" /\ req[p].op = "approveTypeChange" /\ resp[p].code = 200
    /\ req[p].diecutSN = SN1
    /\ RowsOf(SN1) # {}
    /\ \A i \in RowsOf(SN1) :
         modify[i].reqTo = NULL /\ modify[i].reqFrom = NULL /\ modify[i].appvFlag = "A"
    /\ ledger[SN1].status = "BD"

\* C19: the store step of a cancellation on a serial number with a pending
\* request answers 200, sets the approval flag of its rows to null, leaves the
\* requested-from and requested-to values on them, and leaves the ledger as it
\* was.
C19_CancelNullsFlagOnly ==
  [][\A p \in Procs :
       (/\ pc[p] = "ctc_update" /\ pc'[p] # pc[p]
        /\ \E i \in RowsOf(req[p].diecutSN) : modify[i].appvFlag = Pending)
         => /\ resp'[p].code = 200
            /\ Len(modify') = Len(modify)
            /\ \A i \in RowsOf(req[p].diecutSN) :
                 /\ modify'[i].appvFlag = NULL
                 /\ modify'[i].reqFrom = modify[i].reqFrom
                 /\ modify'[i].reqTo = modify[i].reqTo
            /\ ledger' = ledger]_vars

\* C19 witness: a cancellation on A-0001 has answered 500 and the row of A-0001
\* is still pending.
C19_Witness ==
  \E p \in Procs :
    /\ pc[p] = "done" /\ req[p].op = "cancelTypeChange" /\ req[p].diecutSN = SN1
    /\ resp[p].code = 500
    /\ \E i \in RowsOf(SN1) : modify[i].appvFlag = Pending

\* C20: a cancellation on a serial number whose row carries a request answers
\* with originalType equal to the requested-from value on that row.
C20_CancelReturnsRequestedFrom ==
  [][\A p \in Procs :
       (/\ pc[p] = "ctc_update" /\ pc'[p] # pc[p]
        /\ \E i \in RowsOf(req[p].diecutSN) : modify[i].reqFrom # NULL)
         => /\ resp'[p].code = 200
            /\ \E i \in RowsOf(req[p].diecutSN) :
                 resp'[p].data.result.data.originalType = modify[i].reqFrom]_vars

\* C20 witness: a cancellation on A-0001, whose row carries the request from
\* 'DC', has been answered without data.
C20_Witness ==
  \E p \in Procs :
    /\ pc[p] = "done" /\ req[p].op = "cancelTypeChange" /\ req[p].diecutSN = SN1
    /\ "success" \notin DOMAIN resp[p] /\ resp[p].data = NULL
    /\ \E i \in RowsOf(SN1) : modify[i].reqFrom = "DC"

(***************************************************************************)
(* Properties of POST /cancelorder.                                        *)
(***************************************************************************)
\* C21: the first store step of a cancellation sets, on every modification row
\* of its serial number, the cancel flag and the cancel date, organisation and
\* user of the caller; its second step sets the status of the serial number to
\* 'F', clears its due date and answers 200, and at that answer every
\* modification row of the serial number is flagged and carries the audit
\* fields of a cancellation.
C21_CancelStampsAndRetires ==
  [][\A p \in Procs :
       /\ (pc[p] = "co_modify" /\ pc'[p] # pc[p])
            => /\ pc'[p] = "co_sn"
               /\ \A i \in RowsOf(req[p].diecutSN) :
                    /\ modify'[i].cancelFlag = "T"
                    /\ modify'[i].cancelDate # NULL
                    /\ modify'[i].cancelOrgId = User(p).ORG_ID
                    /\ modify'[i].cancelUserId = User(p).EMP_ID
       /\ (pc[p] = "co_sn" /\ pc'[p] # pc[p])
            => /\ pc'[p] = "done" /\ resp'[p].code = 200
               /\ ledger'[req[p].diecutSN].status = "F"
               /\ ledger'[req[p].diecutSN].dueDate = NULL
               /\ \A i \in RowsOf(req[p].diecutSN) :
                    /\ modify'[i].cancelFlag = "T"
                    /\ modify'[i].cancelDate # NULL
                    /\ modify'[i].cancelOrgId = "ORG"
                    /\ modify'[i].cancelUserId \in Procs]_vars

\* C21 witness: a cancellation of A-0001, which had an open modification row and
\* a due date, has answered 200: the row is flagged and stamped with the caller,
\* the ledger row has status 'F' and no due date.
C21_Witness ==
  \E p \in Procs :
    /\ pc[p] = "done" /\ req[p].op = "cancelOrder" /\ resp[p].code = 200
    /\ RowsOf(SN1) # {}
    /\ \A i \in RowsOf(SN1) :
         /\ modify[i].cancelFlag = "T" /\ modify[i].cancelDate = "SYSDATE"
         /\ modify[i].cancelOrgId = "ORG" /\ modify[i].cancelUserId = p
    /\ ledger[SN1].status = "F" /\ ledger[SN1].dueDate = NULL

(***************************************************************************)
(* Properties of the workflow's validation and answers.                    *)
(***************************************************************************)
WorkflowOps ==
  {"saveDiecutModiSN", "orderChange", "saveTypeRequest", "approveTypeChange",
   "cancelTypeChange", "cancelOrder"}

\* the request lacks diecutId or diecutSN, in one of its items for a blade save
LacksIdentifier(r) ==
  IF r.op = "saveDiecutModiSN"
    THEN \E k \in 1..Len(r.items) :
           r.items[k].diecutId = NoStr \/ r.items[k].diecutSN = NoStr
    ELSE r.diecutId = NoStr \/ r.diecutSN = NoStr

\* C22: a workflow request without diecutId or diecutSN, or a blade save with
\* such an item anywhere in its list, is answered 400 by the step that accepts
\* it, which leaves the store as it was; the request never reaches a store step.
C22_MissingIdentifierIs400 ==
  [][\A p \in Procs :
       (req'[p].op \in WorkflowOps /\ LacksIdentifier(req'[p]))
         => /\ pc'[p] = "done" /\ resp'[p].code = 400
            /\ pc[p] \in {"idle", "done"}
            /\ Accepts(p) => store' = store]_vars

\* C22 witness: the blade save whose second item has no diecutId has been
\* answered 400 with A-0002 of its first item not in the ledger, and a
\* cancellation without an identifier has been answered 400 as well.
C22_Witness ==
  \E p, q \in Procs :
    /\ pc[p] = "done" /\ req[p].op = "saveDiecutModiSN" /\ resp[p].code = 400
    /\ Len(req[p].items) = 2 /\ req[p].items[2].diecutId = NoStr
    /\ SN2 \notin DOMAIN ledger
    /\ pc[q] = "done" /\ req[q].op = "cancelOrder" /\ resp[q].code = 400
    /\ LacksIdentifier(req[q])

\* the operations of the workflow that act on an existing serial number
ExistingSnOps ==
  {"orderChange", "saveTypeRequest", "approveTypeChange", "cancelTypeChange", "cancelOrder"}

\* C23: an operation on a serial number that is not in the ledger is answered
\* 404: it never answers with success.
C23_UnknownSnIs404 ==
  [][\A p \in Procs :
       (/\ req[p].op \in ExistingSnOps /\ ~LacksIdentifier(req[p])
        /\ pc[p] \notin {"idle", "done"} /\ pc'[p] = "done"
        /\ req[p].diecutSN \notin DOMAIN ledger)
         => resp'[p].code = 404]_vars

\* C23 witness: an approval for A-0009, which is not in the ledger, has been
\* answered 200 and has written nothing.
C23_Witness ==
  \E p \in Procs :
    /\ pc[p] = "done" /\ req[p].op = "approveTypeChange" /\ req[p].diecutSN = SN9
    /\ SN9 \notin DOMAIN ledger
    /\ resp[p].code = 200 /\ resp[p].data.result.success
    /\ \A i \in 1..Len(modify) : modify[i].appvFlag # "A"

\* process p has answered with a failure
Failed(p) == pc[p] = "done" /\ resp[p].code >= 400

\* C24: every answer of a failed operation, refused or failed in the store, is
\* the envelope with success = false and without data.
C24_FailureEnvelope ==
  \A p \in Procs :
    Failed(p) => /\ "success" \in DOMAIN resp[p]
                 /\ resp[p].success = FALSE
                 /\ resp[p].data = NULL

\* C24 witness: a cancellation without diecutSN has been answered 400 with the
\* body of the error handler, which has a status 'fail' and no success field,
\* while an order change without diecutSN has been answered 400 with
\* success = false.
C24_Witness ==
  \E p, q \in Procs :
    /\ Failed(p) /\ req[p].op = "cancelOrder" /\ resp[p].code = 400
    /\ "success" \notin DOMAIN resp[p] /\ resp[p].status = "fail"
    /\ Failed(q) /\ req[q].op = "orderChange" /\ resp[q].code = 400
    /\ "success" \in DOMAIN resp[q] /\ ~resp[q].success


(***************************************************************************)
(* Properties of the catalog.                                              *)
(***************************************************************************)
\* C25: Diecut.delete keeps the diecut row and marks it INACTIVE, and leaves
\* every serial number and every modification row as it was; Diecut.findById
\* on a diecut marked INACTIVE returns nothing, while getDiecutSNList still
\* returns every serial number of the diecut in ascending order and
\* DiecutSN.findById still returns the ledger row; and no step removes a
\* diecut row or a serial number row.
C25_SoftDeleteKeepsRows ==
  [][\A p \in Procs :
       /\ DOMAIN diecut \subseteq DOMAIN diecut'
       /\ DOMAIN ledger \subseteq DOMAIN ledger'
       /\ (Moves(p) /\ pc[p] = "dd_update")
            => /\ diecut'[req[p].id].status = "INACTIVE"
               /\ ledger' = ledger /\ modify' = modify
       /\ (Moves(p) /\ pc[p] = "df_query" /\ diecut[req[p].id].status = "INACTIVE")
            => resp'[p].data = <<>>
       /\ (Moves(p) /\ pc[p] = "gdl_query")
            => /\ {resp'[p].data.rows[i].diecutSn : i \in DOMAIN resp'[p].data.rows}
                    = {sn \in DOMAIN ledger : ledger[sn].diecutId = req[p].id}
               /\ \A i, j \in DOMAIN resp'[p].data.rows :
                    i < j => /\ resp'[p].data.rows[i].diecutSn # resp'[p].data.rows[j].diecutSn
                             /\ StrLeq(resp'[p].data.rows[i].diecutSn,
                                       resp'[p].data.rows[j].diecutSn)
       /\ (Moves(p) /\ pc[p] = "sf_query" /\ req[p].sn \in DOMAIN ledger)
            => resp'[p].data = <<ledger[req[p].sn]>>]_vars

\* a lookup of a diecut marked INACTIVE has returned nothing while the row is
\* still stored
C25_Witness ==
  \E p \in Procs :
    /\ pc[p] = "done" /\ req[p].op = "Diecut.findById"
    /\ diecut[req[p].id].status = "INACTIVE"
    /\ resp[p].data = <<>>
    /\ \E q \in Procs : /\ pc[q] = "done" /\ req[q].op = "getDiecutSNList"
                        /\ req[q].id = req[p].id
                        /\ Len(resp[q].data.rows) >= 2


(***************************************************************************)
(* Properties of the batch registration against a failing store.           *)
(***************************************************************************)
\* the modification rows of serial number sn
HasModRow(sn) == \E k \in 1..Len(modify) : modify[k].sn = sn

\* process p's call fails in this step, in one of the store calls of the loop
FailsInLoop(p) ==
  /\ Moves(p)
  /\ pc[p] \in {"sdl_check", "sdl_insertSN", "sdl_insertModify"}
  /\ pc'[p] = "done" /\ resp'[p].code = 500

\* C26: a batch registration whose store call fails on an entry takes nothing
\* back: the step that fails leaves the ledger and the modification rows as
\* they were, so every serial number the call had saved before keeps its ledger
\* row and its modification row, and when the failing call is the insert of the
\* modification row, the serial number of that entry is in the ledger without
\* a modification row; no later step removes any of these rows.
C26_BatchNotAtomic ==
  [][/\ DOMAIN ledger \subseteq DOMAIN ledger'
     /\ Len(modify') >= Len(modify) /\ SubSeq(modify', 1, Len(modify)) = modify
     /\ \A p \in Procs :
          FailsInLoop(p)
            => /\ ledger' = ledger /\ modify' = modify
               /\ \A sn \in loc[p].saved \ {req[p].SNList[loc[p].i]} :
                    sn \in DOMAIN ledger' /\ HasModRow(sn)'
               /\ pc[p] = "sdl_insertModify"
                    => /\ req[p].SNList[loc[p].i] \in loc[p].saved
                       /\ req[p].SNList[loc[p].i] \in DOMAIN ledger'
                       /\ ~HasModRow(req[p].SNList[loc[p].i])']_vars

\* a call has failed on its second serial number between the two inserts: the
\* first serial number has both rows, the second has a ledger row only
C26_Witness ==
  \E p \in Procs :
    /\ pc[p] = "done" /\ req[p].op = "saveDiecutSN" /\ resp[p].code = 500
    /\ req[p].SNList = <<SN2, SN9>> /\ loc[p].saved = {SN2, SN9}
    /\ SN2 \in DOMAIN ledger /\ HasModRow(SN2)
    /\ SN9 \in DOMAIN ledger /\ ~HasModRow(SN9)


(***************************************************************************)
(* Properties of the approval against a failing store.                     *)
(***************************************************************************)
\* the modification rows of sn carry the approval of type t while the ledger
\* row of sn has another status
HalfApproved(sn, t) ==
  /\ sn \in DOMAIN ledger /\ ledger[sn].status # t
  /\ \E k \in 1..Len(modify) : modify[k].sn = sn
  /\ \A k \in 1..Len(modify) :
       modify[k].sn = sn => modify[k].appvFlag = "A" /\ modify[k].modifyType = t

\* C27: the approval writes the modification row and the ledger row in two
\* steps: the first sets the approval flag and the type on the modification
\* rows of the serial number and leaves the ledger as it was, ending in a state any other call can
\* read before the second step; and when the second store call fails, the call
\* answers 500 and the store stays as the first step left it.
C27_ApprovalTwoCommits ==
  [][\A p \in Procs :
       /\ (Moves(p) /\ pc[p] = "atc_modify")
            => /\ ledger' = ledger
               /\ pc'[p] = "atc_sn"
               /\ (req[p].diecutSN = SN1 /\ HasModRow(SN1)
                     /\ ledger[SN1].status # req[p].modifyType)
                    => HalfApproved(SN1, req[p].modifyType)'
       /\ (Moves(p) /\ pc[p] = "atc_sn" /\ resp'[p].code = 500)
            => /\ ledger' = ledger /\ modify' = modify
               /\ pc'[p] = "done"]_vars

\* an approval of A-0001 has failed after its first update and the store is
\* half approved, and a reader that finished has been returned the old status
\* next to the approved type
C27_Witness ==
  \E p, q \in Procs :
    /\ pc[p] = "done" /\ req[p].op = "approveTypeChange" /\ resp[p].code = 500
    /\ req[p].diecutSN = SN1
    /\ HalfApproved(SN1, "BD")
    /\ pc[q] = "done" /\ req[q].op = "getDiecutSNList" /\ req[q].id = A
    /\ \E i \in DOMAIN resp[q].data.rows :
         /\ resp[q].data.rows[i].diecutSn = SN1
         /\ resp[q].data.rows[i].status = "N"
         /\ resp[q].data.rows[i].modifyTypes = {"BD"}


(***************************************************************************)
(* Properties of the connections.                                          *)
(***************************************************************************)
ConnOps == {"executeQuery", "executeTransaction"}

\* the connections process p holds open
OpenConnections(p) ==
  IF req[p].op \in ConnOps THEN loc[p].opened - loc[p].closed ELSE 0

\* C28: an operation holds at most one connection at a time, holds none between
\* two store calls, and holds none once it has returned or failed: every
\* connection it opened has been closed, whether its statement went through or
\* threw; and a request begins without a connection.
C28_ConnectionsReleased ==
  \A p \in Procs :
    /\ OpenConnections(p) \in {0, 1}
    /\ req[p].op \in ConnOps
         => /\ (loc[p].connection = "open") = (OpenConnections(p) = 1)
            /\ pc[p] \in {"eq_connect", "et_connect", "done"} => OpenConnections(p) = 0
    /\ pc[p] \in {"idle", "done"} => OpenConnections(p) = 0

\* one operation has failed in the statement of its second store call after
\* opening and closing two connections, and a transaction has failed after
\* closing the one it opened
C28_Witness ==
  \E p, q \in Procs :
    /\ pc[p] = "done" /\ req[p].op = "executeQuery" /\ resp[p].code = 500
    /\ loc[p].opened = 2 /\ loc[p].closed = 2
    /\ pc[q] = "done" /\ req[q].op = "executeTransaction" /\ resp[q].code = 500
    /\ loc[q].opened = 1 /\ loc[q].closed = 1


(***************************************************************************)
(* Properties of the counts of the batch registration.                     *)
(***************************************************************************)
\* the entry at position i is the first one of the list with its serial number
FirstAt(list, i) == \A j \in 1..(i - 1) : list[j] # list[i]

\* the serial numbers that occur more than once in the list
Repeated(list) ==
  {list[i] : i \in {i \in WithSn(list) : \E j \in WithSn(list) : j # i /\ list[j] = list[i]}}

\* process p's batch registration has been answered without error
BatchAnswered(p) == pc[p] = "done" /\ req[p].op = "saveDiecutSN" /\ resp[p].code = 200

\* process p's check of the entry at loc.i returns in this step
CheckReturns(p) == BatchStep(p) /\ pc[p] = "sdl_check" /\ resp'[p].code # 500

\* what both readings of C29 share: a call answered without error returns
\* counts with savedCount + skippedCount + the number of entries without a
\* serial number = the length of snList; only the first occurrence of a serial
\* number is ever inserted, so savedCount counts each serial number the call
\* inserted once; and every later occurrence is counted as skipped.
CountsAddUp ==
  \A p \in Procs :
    /\ (Moves(p) /\ BatchAnswered(p)')
         => /\ resp'[p].data.result.savedCount + resp'[p].data.result.skippedCount
                 + (Len(req'[p].SNList) - Cardinality(WithSn(req'[p].SNList)))
               = Len(req'[p].SNList)
            /\ resp'[p].data.result.savedCount = Cardinality(loc'[p].saved)
    /\ (BatchStep(p) /\ pc[p] = "sdl_insertSN" /\ pc'[p] # "done")
         => /\ FirstAt(req[p].SNList, loc[p].i)
            /\ req[p].SNList[loc[p].i] \notin DOMAIN ledger
            /\ req[p].SNList[loc[p].i] \in DOMAIN ledger'
    /\ (CheckReturns(p) /\ ~FirstAt(req[p].SNList, loc[p].i))
         => /\ loc'[p].skippedCount = loc[p].skippedCount + 1
            /\ loc'[p].saved = loc[p].saved

\* C29 as stated: the first occurrence of every serial number that occurs more
\* than once in the list is saved by the call.
C29_RepeatedSavedOnce ==
  [][/\ CountsAddUp
     /\ \A p \in Procs :
          (Moves(p) /\ BatchAnswered(p)')
            => Repeated(req'[p].SNList) \subseteq loc'[p].saved]_vars

\* C29, amended: the first occurrence of a serial number that occurs more than
\* once in the list is saved when the serial number is not in the ledger at its
\* check, and counted as skipped, like every later one, when it is.
C29_RepeatedNewSavedOnce ==
  [][/\ CountsAddUp
     /\ \A p \in Procs :
          (CheckReturns(p) /\ FirstAt(req[p].SNList, loc[p].i)
             /\ req[p].SNList[loc[p].i] \in Repeated(req[p].SNList))
            => IF req[p].SNList[loc[p].i] \in DOMAIN ledger
                 THEN /\ loc'[p].skippedCount = loc[p].skippedCount + 1
                      /\ pc'[p] # "sdl_insertSN"
                 ELSE pc'[p] = "sdl_insertSN" /\ loc'[p] = loc[p]
     /\ \A p \in Procs :
          (Moves(p) /\ BatchAnswered(p)')
            => \A sn \in Repeated(req'[p].SNList) :
                 \/ sn \in loc'[p].saved
                 \/ resp'[p].data.result.skippedCount
                      >= Cardinality({i \in WithSn(req'[p].SNList) : req'[p].SNList[i] = sn})]_vars

\* the list <<A-0002, A-0002>> has been answered with 1 saved and 1 skipped by
\* one call and with 0 saved and 2 skipped by another
C29_Witness ==
  \E p, q \in Procs :
    /\ BatchAnswered(p) /\ req[p].SNList = <<SN2, SN2>>
    /\ resp[p].data.result.savedCount = 1 /\ resp[p].data.result.skippedCount = 1
    /\ loc[p].saved = {SN2}
    /\ BatchAnswered(q) /\ req[q].SNList = <<SN2, SN2>>
    /\ resp[q].data.result.savedCount = 0 /\ resp[q].data.result.skippedCount = 2


(***************************************************************************)
(* Properties of the status a blade save leaves.                           *)
(***************************************************************************)
\* C30: when a blade save answers 200, every serial number of the call has
\* the supplied status as its ledger status and as the type of its
\* modification rows, whether the call found the serial number or created it.
C30_StatusEqualsModifyType ==
  [][\A p \in Procs :
       (Moves(p) /\ pc[p] = "sb_getUpdated" /\ pc'[p] = "done" /\ resp'[p].code = 200)
         => \A k \in 1..Len(req[p].items) :
              LET item == req[p].items[k]
              IN  /\ ledger'[item.diecutSN].status = item.status
                  /\ \A i \in 1..Len(modify') :
                       modify'[i].sn = item.diecutSN
                         => modify'[i].modifyType = item.status]_vars

\* a blade save with status 'B' has created A-0002 and answered 200: the
\* ledger row has status 'N' and the modification row has type 'B'
C30_Witness ==
  \E p \in Procs :
    /\ pc[p] = "done" /\ req[p].op = "saveDiecutModiSN" /\ resp[p].code = 200
    /\ req[p].items = <<BladeItem(SN2, 5, "B", NULL)>>
    /\ resp[p].data.results[1].message = "New blade data created"
    /\ ledger[SN2].status = "N"
    /\ \E i \in 1..Len(modify) : modify[i].sn = SN2 /\ modify[i].modifyType = "B"

=============================================================================
